---- MODULE Spec2Model ----
(***************************************************************************)
(* A model of zap, the parallel single-file transfer tool.                 *)
(*                                                                         *)
(* Three state machines share this module; each has its own variables and  *)
(* is idle (its actions disabled) in the behaviours of the others:         *)
(*   plan      the byte-range segmentation computed in utils.rs            *)
(*   transfer  main.rs + utils.rs + ssh_comm.rs: the coordinator, its N    *)
(*             stream threads (ssh child processes) and the assembly       *)
(*   sftp      ssh.rs: one pull_worker / push_worker call on a segment     *)
(*                                                                         *)
(* Files are sequences of bytes.  The program never inspects a byte it     *)
(* copies, so the source holds the byte o+1 at offset o: every misplaced   *)
(* byte shows.  A byte 0 is one no source holds (a hole of a file).        *)
(***************************************************************************)
EXTENDS Integers, Sequences, FiniteSets, TLC

\* ------------------------------------------------------------------ bounds
\* The number of bytes the model puts in one MiB (1024 * 1024 in the code).
MiB == 2
\* plan: the largest file size and stream count
PlanMaxSize == 100
PlanMaxStreams == 8
\* transfer: the largest file size, stream count and retry budget
MaxSize == 2
MaxStreams == 2
MaxRetries == 1
\* extend: the largest size asked for
ExtMaxSize == 3
\* locks: the largest number of streams
LockMaxStreams == 3
\* sftp: the largest file size and retry budget
SftpMaxSize == 4
SftpMaxRetries == 1
\* delay: the largest retry budget (cfg.retries is a u32), and the number of
\* values the random number of the jitter is drawn from
DelayMaxRetries == 66
JitterSteps == 4
\* cli, args: the longest location and the longest numeric argument, in
\* characters
LocMaxLen == 4
NumArgMaxLen == 2

\* --------------------------------------------------------------- constants
BUFFER_SIZE == 1 * MiB

\* ------------------------------------------------------------------- files
Min(a, b) == IF a <= b THEN a ELSE b
Max(a, b) == IF a >= b THEN a ELSE b

\* The source file of size S: offset o (0-based) holds the byte o + 1.
SourceOf(S) == [o \in 1..S |-> o]
\* n zero bytes
Zeros(n) == [o \in 1..n |-> 0]
\* The bytes of f at the offsets [from, from + n), cut at the end of f.
Slice(f, from, n) == SubSeq(f, from + 1, Min(Len(f), from + n))

\* A slip of WriteAt: the offset is ignored, the bytes go to the file's end.
WriteAtEnd(d, off, b) == d \o b
\* The file d after the bytes b are written at the offset off (pwrite, or
\* seek and write): a gap past the old end reads as zeros.
WriteAt(d, off, b) ==
    [o \in 1..Max(Len(d), IF Len(b) = 0 THEN 0 ELSE off + Len(b)) |->
        IF o > off /\ o <= off + Len(b) THEN b[o - off]
        ELSE IF o <= Len(d) THEN d[o]
        ELSE 0]

NoFile == [exists |-> FALSE, data |-> <<>>]
FileOf(d) == [exists |-> TRUE, data |-> d]

\* ------------------------------------------------------------ segmentation
\* A slip of StreamSize: the quotient is rounded up.
StreamSizeCeil(S, N) == (S + N - 1) \div N
\* utils.rs: let stream_size = file_size / num_streams;
StreamSize(S, N) == S \div N
\* utils.rs: let extra_bytes = file_size % num_streams;
ExtraBytes(S, N) == S % N
\* utils.rs: let start = stream_num * stream_size;
SegStart(i, S, N) == i * StreamSize(S, N)
\* A slip of SegEnd: the remainder is dropped.
SegEndNoExtra(i, S, N) == SegStart(i, S, N) + StreamSize(S, N)
\* utils.rs: let mut end = start + stream_size;
\*           if stream_num == num_streams - 1 { end += extra_bytes; }
SegEnd(i, S, N) ==
    IF i = N - 1
    THEN SegStart(i, S, N) + StreamSize(S, N) + ExtraBytes(S, N)
    ELSE SegStart(i, S, N) + StreamSize(S, N)


\* ----------------------------------------------------- ssh_comm.rs: dd, retry
\* ssh_comm.rs: skip={start / BUFFER_SIZE}
DdSkip(start) == start \div BUFFER_SIZE
\* ssh_comm.rs: count={(bytes_to_read + BUFFER_SIZE - 1) / BUFFER_SIZE}
DdCount(bytes_to_read) == (bytes_to_read + BUFFER_SIZE - 1) \div BUFFER_SIZE
\* What `dd if=f bs=.. skip=.. count=.. status=none` writes to its output:
\* count blocks of bs bytes from the offset skip * bs, cut at the end of f.
DdOutput(f, start, bytes_to_read) ==
    Slice(f, DdSkip(start) * BUFFER_SIZE, DdCount(bytes_to_read) * BUFFER_SIZE)

\* A slip of TotalAtStart: the count of the attempt before is carried over.
TotalCarried(prev) == prev
\* ssh_comm.rs, ssh.rs, in the closure of every attempt:
\*   let mut total_read = 0;  (total_written on push)
TotalAtStart(prev) == 0

\* A slip of WhileCond: one attempt too few.
WhileCondStrict(att, r) == att < r
\* ssh_comm.rs, ssh.rs: while attempt <= retries
WhileCond(att, r) == att <= r
\* ssh_comm.rs, ssh.rs: the Err arm after `attempt += 1` (att is the new count):
\* if attempt > retries { return Err(..) }  thread::sleep(..)
ErrArm(att, r) == IF att > r THEN "ret_err" ELSE "sleep"

VARIABLES
    plan_size,      \* plan: file_size
    plan_streams,   \* plan: num_streams (0: the plan machine is idle)
    plan_segs,      \* plan: <<start, end>> of the streams spawned so far
    dir,            \* transfer: "pull" | "push" ("off": the machine is idle)
    source,         \* the source file (remote on pull, local on push)
    num_streams,    \* -s
    retries,        \* -r
    file_size,      \* utils.rs: file_size, once the coordinator has it
    cpc,            \* where the coordinator (the main thread) is
    spawned,        \* threads spawned so far (the spawn loop's stream_num)
    joined,         \* handles joined so far
    asm,            \* assemble_local_streams: the loop's i
    wpc,            \* per stream: where its thread is
    attempt,        \* per stream: stream_stream_*'s `attempt`
    tries,          \* per stream: attempts begun (history)
    total,          \* per stream: total_read / total_written of the attempt
    conn,           \* per stream (push): the ssh child reached the remote shell
    stream_file,    \* per stream: <path>/stream_<i>.bin
    retry_flag,     \* utils.rs: retry_flag, the FailureMap
    streams_completed, \* utils.rs: stats.streams_completed
    dest,           \* the destination file <path>/<file name>
    stats_printed,  \* print_transfer_stats has run (the success report)
    exit_code,      \* the process's exit status (-1: still running)
    flags_lock,     \* who holds the FailureMap mutex: "none" | "main"
    sftp_fn,        \* sftp: "pull" (pull_worker) | "push" (push_worker) | "off"
    s_source,       \* the file read (remote on pull, local on push)
    s_dest,         \* the file written (local on pull, remote on push)
    s_start,        \* start
    s_end,          \* end
    s_retries,      \* cfg.retries
    s_pc,           \* where the call is
    s_attempt,      \* attempt
    s_tries,        \* attempts begun (history)
    s_sessions,     \* sessions established (history)
    s_total,        \* total_read / total_written
    s_buf,          \* buffer[..n], the bytes of the last read
    s_written,      \* written
    s_rpos,         \* the cursor of the remote SFTP handle
    s_lpos,         \* push: the cursor of the local handle
    s_sess,         \* the session of the attempt (0: none), named by the
                    \* connect_and_auth call that made it
    s_calls,        \* calls of connect_and_auth (history)
    s_dropped,      \* the sessions of the attempts that failed (history)
    s_build,        \* pull: the target of the build, "unix" | "windows"
    s_cur,          \* pull: the cursor of the shared handle local_file
    s_par,          \* the parity of the write calls for the buffer at hand
    d_checks,       \* delay: the build checks arithmetic overflow (debug)
    d_retries,      \* cfg.retries (-1: the delay machine is idle)
    d_attempt,      \* attempt
    d_pc,           \* where the worker's Err arm is
    d_delay_ms,     \* calculate_retry_delay: delay_ms
    d_prev,         \* delay_ms of the retry before (history)
    d_wrapped,      \* an operation of calculate_retry_delay has wrapped (history)
    d_final,        \* calculate_retry_delay: final_delay
    c_src,          \* cli: the `source` argument, a string
    c_dst,          \* the `destination` argument
    c_user,         \* the environment variable USER
    c_srcp,         \* parse_location(source)
    c_dstp,         \* parse_location(destination)
    c_srckind,      \* what the file system holds at the local source path
    c_dstkind,      \* what it holds at the local destination path
    c_pc,           \* where main is
    c_exit,         \* the process's exit status (-1: still running)
    c_msg,          \* the error reported
    a_dir,          \* args: "pull" | "push", as the locations decide
    a_sarg,         \* the value of -s/--streams
    a_num_streams,  \* main.rs: num_streams
    a_pc,           \* where main is
    a_exit,         \* the process's exit status (-1: still running)
    a_msg,          \* the error reported
    a_net,          \* ssh has been run (network I/O)
    h_key,          \* auth: cfg.key_path is Some(..)
    h_home,         \* the environment variable HOME is set
    h_exists,       \* which of the default key files exist
    h_pc,           \* where connect_and_auth is
    h_k,            \* the index of the default key the loop is at
    h_auth,         \* sess.authenticated()
    h_tried,        \* the methods attempted, in order (history)
    h_results,      \* whether each of them authenticated (history)
    e_before,       \* extend: the remote file before the call (history)
    e_file,         \* the remote file at `path`
    e_size,         \* size
    e_pc,           \* where extend_remote_file is
    e_pos,          \* the cursor of the handle `file`
    e_worked,       \* a worker has written to the file since (history)
    l_dir,          \* locks: "push", "pull", or "off"
    l_n,            \* num_streams
    l_cpc,          \* where the coordinator is
    l_spawned,      \* threads spawned so far
    l_joined,       \* handles joined so far
    l_wpc,          \* where each thread is
    l_stats,        \* the thread that holds the mutex of `stats`
    l_flags,        \* the thread that holds the mutex of `retry_flag`
    l_retry_flag,   \* the vector behind `retry_flag`
    l_completed,    \* stats.streams_completed
    l_printed       \* print_transfer_stats has run

planVars == <<plan_size, plan_streams, plan_segs>>
xferVars == <<dir, source, num_streams, retries, file_size, cpc, spawned, joined,
              asm, wpc, attempt, tries, total, conn, stream_file, retry_flag,
              streams_completed, dest, stats_printed, exit_code,
              flags_lock>>

\* What the actions of one machine leave alone: the other machines.
sftpVars == <<sftp_fn, s_source, s_dest, s_start, s_end, s_retries, s_pc,
              s_attempt, s_tries, s_sessions, s_total, s_buf, s_written, s_rpos,
              s_lpos, s_sess, s_calls, s_dropped, s_build, s_cur, s_par>>
delayVars == <<d_checks, d_retries, d_attempt, d_pc, d_delay_ms, d_prev,
               d_wrapped, d_final>>
cliVars == <<c_src, c_dst, c_user, c_srcp, c_dstp, c_srckind, c_dstkind,
             c_pc, c_exit, c_msg>>
argsVars == <<a_dir, a_sarg, a_num_streams, a_pc, a_exit, a_msg, a_net>>
authVars == <<h_key, h_home, h_exists, h_pc, h_k, h_auth, h_tried, h_results>>
extVars == <<e_before, e_file, e_size, e_pc, e_pos, e_worked>>
lockVars == <<l_dir, l_n, l_cpc, l_spawned, l_joined, l_wpc, l_stats, l_flags,
              l_retry_flag, l_completed, l_printed>>
notPlan == <<xferVars, sftpVars, delayVars, cliVars, argsVars, authVars,
    extVars, lockVars>>
notXfer == <<planVars, sftpVars, delayVars, cliVars, argsVars, authVars,
    extVars, lockVars>>
notSftp == <<planVars, xferVars, delayVars, cliVars, argsVars, authVars,
    extVars, lockVars>>
notDelay == <<planVars, xferVars, sftpVars, cliVars, argsVars, authVars,
    extVars, lockVars>>
notCli == <<planVars, xferVars, sftpVars, delayVars, argsVars, authVars,
    extVars, lockVars>>
notArgs == <<planVars, xferVars, sftpVars, delayVars, cliVars, authVars,
    extVars, lockVars>>
notAuth == <<planVars, xferVars, sftpVars, delayVars, cliVars, argsVars,
    extVars, lockVars>>
notExt == <<planVars, xferVars, sftpVars, delayVars, cliVars, argsVars,
    authVars, lockVars>>
notLock == <<planVars, xferVars, sftpVars, delayVars, cliVars, argsVars,
    authVars, extVars>>

\* ==================================================================== plan
PlanInit ==
    /\ plan_size \in 0..PlanMaxSize
    /\ plan_streams \in 1..PlanMaxStreams
    /\ plan_segs = <<>>

PlanOff ==
    /\ plan_size = 0
    /\ plan_streams = 0
    /\ plan_segs = <<>>

\* One turn of `for stream_num in 0..num_streams`: the spawned thread's range.
PlanSpawn ==
    /\ Len(plan_segs) < plan_streams
    /\ LET stream_num == Len(plan_segs) IN
       plan_segs' = Append(plan_segs,
                           <<SegStart(stream_num, plan_size, plan_streams),
                             SegEnd(stream_num, plan_size, plan_streams)>>)
    /\ UNCHANGED <<plan_size, plan_streams, notPlan>>

PlanNext == PlanSpawn

\* ================================================================ transfer
Streams == 0..(num_streams - 1)
\* utils.rs: the range the thread of stream i computes
Start(i) == SegStart(i, file_size, num_streams)
End(i) == SegEnd(i, file_size, num_streams)
\* ssh_comm.rs: let bytes_to_read = end - start; (bytes_to_transfer on push)
BytesTo(i) == End(i) - Start(i)

\* A slip of NewFlags: the slots start raised.
NewFlagsRaised(n) == [i \in 0..(n - 1) |-> TRUE]
\* utils.rs: Arc::new(Mutex::new(vec![false; num_streams]))
NewFlags(n) == [i \in 0..(n - 1) |-> FALSE]

\* utils.rs: flags.iter().any(|&flag| flag)
AnyFailed(flags) == \E i \in DOMAIN flags : flags[i]

\* main.rs: the exit status after the transfer function has returned.  Pull:
\* Err is printed and process::exit(1); push returns no result, main falls
\* off its end.
MainExit(d, ok) == IF d = "pull" /\ ~ok THEN 1 ELSE 0

XferInit ==
    /\ dir \in {"pull", "push"}
    /\ \E S \in 0..MaxSize : source = SourceOf(S)
    /\ num_streams \in 1..MaxStreams
    /\ retries \in 0..MaxRetries
    /\ file_size = 0
    /\ cpc = "stat"
    /\ spawned = 0
    /\ joined = 0
    /\ asm = 0
    /\ wpc = [i \in Streams |-> "unspawned"]
    /\ attempt = [i \in Streams |-> 0]
    /\ tries = [i \in Streams |-> 0]
    /\ total = [i \in Streams |-> 0]
    /\ conn = [i \in Streams |-> FALSE]
    /\ stream_file = [i \in Streams |-> NoFile]
    /\ retry_flag = NewFlags(0)
    /\ streams_completed = 0
    /\ dest = NoFile
    /\ stats_printed = FALSE
    /\ exit_code = -1
    /\ flags_lock = "none"

XferOff ==
    /\ dir = "off"
    /\ source = <<>>
    /\ num_streams = 0
    /\ retries = 0
    /\ file_size = 0
    /\ cpc = "off"
    /\ spawned = 0
    /\ joined = 0
    /\ asm = 0
    /\ wpc = <<>>
    /\ attempt = <<>>
    /\ tries = <<>>
    /\ total = <<>>
    /\ conn = <<>>
    /\ stream_file = <<>>
    /\ retry_flag = <<>>
    /\ streams_completed = 0
    /\ dest = NoFile
    /\ stats_printed = FALSE
    /\ exit_code = -1
    /\ flags_lock = "none"

\* ------------------------------------------------------------- coordinator
\* utils.rs: file_size (fs::metadata on push, get_remote_file_size on pull),
\* then stats and retry_flag.  A failed stat returns: push prints and returns,
\* pull returns the Err.
CStat ==
    /\ cpc = "stat"
    /\ \E ok \in BOOLEAN :
        IF ok
        THEN /\ file_size' = Len(source)
             /\ retry_flag' = NewFlags(num_streams)
             /\ cpc' = "spawn"
             /\ UNCHANGED exit_code
        ELSE /\ cpc' = "done"
             /\ exit_code' = MainExit(dir, FALSE)
             /\ UNCHANGED <<file_size, retry_flag>>
    /\ UNCHANGED <<notXfer, flags_lock, dir, source, num_streams, retries, spawned, joined, asm, wpc,
                   attempt, tries, total, conn, stream_file, streams_completed,
                   dest, stats_printed>>

\* utils.rs: for stream_num in 0..num_streams { .. thread::spawn(..) .. }
CSpawn ==
    /\ cpc = "spawn"
    /\ wpc' = [wpc EXCEPT ![spawned] = "top"]
    /\ spawned' = spawned + 1
    /\ cpc' = IF spawned + 1 = num_streams THEN "join" ELSE "spawn"
    /\ UNCHANGED <<notXfer, flags_lock, dir, source, num_streams, retries, file_size, joined, asm,
                   attempt, tries, total, conn, stream_file, retry_flag,
                   streams_completed, dest, stats_printed, exit_code>>

\* A slip of Joinable: the coordinator does not wait for the thread.
JoinableAtOnce(i) == TRUE
\* handle.join() returns once the thread of stream i has terminated.
Joinable(i) == wpc[i] = "done"

\* utils.rs: for handle in handles { let _ = handle.join(); }
CJoin ==
    /\ cpc = "join"
    /\ Joinable(joined)
    /\ joined' = joined + 1
    /\ cpc' = IF joined + 1 = num_streams THEN "check" ELSE "join"
    /\ UNCHANGED <<notXfer, flags_lock, dir, source, num_streams, retries, file_size, spawned, asm,
                   wpc, attempt, tries, total, conn, stream_file, retry_flag,
                   streams_completed, dest, stats_printed, exit_code>>

\* utils.rs: let flags = retry_flag.lock().unwrap();
\*           if flags.iter().any(|&flag| flag) { .. } else { assemble .. }
\* The guard `flags` lives to the end of the function: the mutex is released
\* when the coordinator returns.
CCheck ==
    /\ cpc = "check"
    /\ flags_lock = "none"
    /\ IF AnyFailed(retry_flag)
       THEN /\ cpc' = "done"
            /\ exit_code' = MainExit(dir, FALSE)
            /\ flags_lock' = "none"
       ELSE /\ cpc' = "assemble"
            /\ flags_lock' = "main"
            /\ UNCHANGED exit_code
    /\ UNCHANGED <<notXfer, dir, source, num_streams, retries, file_size, spawned, joined,
                   asm, wpc, attempt, tries, total, conn, stream_file,
                   retry_flag, streams_completed, dest, stats_printed>>

\* ssh_comm.rs assemble_local_streams: let mut output = File::create(output_file)?;
CAssembleCreate ==
    /\ cpc = "assemble"
    /\ dir = "pull"
    /\ \E ok \in BOOLEAN :
        IF ok
        THEN /\ dest' = FileOf(<<>>)
             /\ asm' = 0
             /\ cpc' = "copy"
             /\ UNCHANGED <<exit_code, flags_lock>>
        ELSE /\ cpc' = "done"
             /\ exit_code' = MainExit(dir, FALSE)
             /\ flags_lock' = "none"
             /\ UNCHANGED <<dest, asm>>
    /\ UNCHANGED <<notXfer, dir, source, num_streams, retries, file_size, spawned, joined,
                   wpc, attempt, tries, total, conn, stream_file, retry_flag,
                   streams_completed, stats_printed>>

\* ssh_comm.rs assemble_local_streams, one turn of the loop:
\*   File::open(&stream_path)?; io::copy(..)?; std::fs::remove_file(..)?;
\* and, after the last turn, Ok(()), the statistics and main's exit.
CAssembleCopy ==
    /\ cpc = "copy"
    /\ LET f == stream_file[asm] IN
       \E o \in {"ok", "open_err", "copy_err", "remove_err"} :
       \E k \in 0..Max(0, Len(f.data) - 1) :
          /\ f.exists \/ o = "open_err"
          /\ o = "copy_err" \/ k = 0
          /\ dest' = CASE o = "open_err" -> dest
                       [] o = "copy_err" -> FileOf(dest.data \o SubSeq(f.data, 1, k))
                       [] OTHER -> FileOf(dest.data \o f.data)
          /\ stream_file' = IF o = "ok"
                            THEN [stream_file EXCEPT ![asm] = NoFile]
                            ELSE stream_file
          /\ asm' = IF o = "ok" THEN asm + 1 ELSE asm
          /\ cpc' = IF o = "ok" /\ asm + 1 < num_streams THEN "copy" ELSE "done"
          /\ exit_code' = IF o = "ok"
                          THEN (IF asm + 1 < num_streams
                                THEN exit_code
                                ELSE MainExit(dir, TRUE))
                          ELSE MainExit(dir, FALSE)
          /\ stats_printed' = (o = "ok" /\ asm + 1 = num_streams)
          /\ flags_lock' = IF o = "ok" /\ asm + 1 < num_streams
                           THEN flags_lock ELSE "none"
    /\ UNCHANGED <<notXfer, dir, source, num_streams, retries, file_size, spawned, joined,
                   wpc, attempt, tries, total, conn, retry_flag,
                   streams_completed>>

\* The stream files 0..k-1, one after the other.
RECURSIVE Concat(_, _)
Concat(files, k) ==
    IF k = 0 THEN <<>> ELSE Concat(files, k - 1) \o files[k - 1].data

\* ssh_comm.rs assemble_streams: one ssh command,
\*   rm -f <dest>; cat stream_0.bin >> <dest> && rm stream_0.bin; ...
\* whose exit status is not looked at (.status().expect(..) panics only when
\* sh cannot be run); then utils.rs prints the statistics and returns.
\* k = -2: sh cannot be run; k = -1: ssh does not reach the remote shell;
\* k >= 0: the remote shell runs rm -f and the first k pairs (k < num_streams:
\* the connection is lost there).
CAssembleRemote ==
    /\ cpc = "assemble"
    /\ dir = "push"
    /\ \E k \in (-2)..num_streams :
          /\ dest' = IF k < 0 THEN dest
                     ELSE IF k = 0 THEN NoFile
                     ELSE FileOf(Concat(stream_file, k))
          /\ stream_file' = [i \in Streams |->
                                IF i < k THEN NoFile ELSE stream_file[i]]
          /\ stats_printed' = (k /= -2)
          /\ exit_code' = IF k = -2 THEN 101 ELSE MainExit(dir, TRUE)
    /\ cpc' = "done"
    /\ flags_lock' = "none"
    /\ UNCHANGED <<notXfer, dir, source, num_streams, retries, file_size, spawned, joined,
                   asm, wpc, attempt, tries, total, conn, retry_flag,
                   streams_completed>>

\* ------------------------------------------- ssh_comm.rs: the stream threads
\* The Err arm of an attempt: attempt += 1, then give up or sleep.
Failed(i) ==
    /\ attempt' = [attempt EXCEPT ![i] = @ + 1]
    /\ wpc' = [wpc EXCEPT ![i] = ErrArm(attempt[i] + 1, retries)]

\* stream_stream_from_remote, from the loop's test to the read loop: the test,
\* Command::new("ssh")..spawn() and File::create(&stream_path).  Past the loop
\* (the test fails) the function returns its last Err.
PullBegin(i) ==
    /\ dir = "pull"
    /\ wpc[i] = "top"
    /\ IF WhileCond(attempt[i], retries)
       THEN /\ tries' = [tries EXCEPT ![i] = @ + 1]
            /\ \E o \in {"spawn_err", "create_err", "ok"} :
                IF o = "ok"
                THEN /\ stream_file' = [stream_file EXCEPT ![i] = FileOf(<<>>)]
                     /\ total' = [total EXCEPT ![i] = TotalAtStart(@)]
                     /\ wpc' = [wpc EXCEPT ![i] = "io"]
                     /\ UNCHANGED attempt
                ELSE /\ Failed(i)
                     /\ UNCHANGED <<stream_file, total>>
       ELSE /\ wpc' = [wpc EXCEPT ![i] = "ret_err"]
            /\ UNCHANGED <<tries, stream_file, total, attempt>>
    /\ UNCHANGED <<notXfer, flags_lock, dir, source, num_streams, retries, file_size, cpc, spawned,
                   joined, asm, conn, retry_flag, streams_completed, dest,
                   stats_printed, exit_code>>

\* stream_stream_from_remote, one turn of the read loop and, when it breaks,
\* the test total_read == bytes_to_read.
\* n = -1: stdout.read fails; n = 0: end of the child's output (dd is done, or
\* the child has died); n > 0: n bytes read.  k: the bytes file.write_all wrote
\* (k < write_size: it failed).
PullRead(i) ==
    /\ dir = "pull"
    /\ wpc[i] = "io"
    /\ LET out == DdOutput(source, Start(i), BytesTo(i))
           avail == Len(out) - total[i]
       IN \E n \in (-1)..Min(BUFFER_SIZE, avail) :
          LET write_size == Min(n, BytesTo(i) - total[i]) IN
          \E k \in 0..Max(0, write_size) :
             /\ stream_file' = [stream_file EXCEPT
                                   ![i] = FileOf(@.data \o Slice(out, total[i], k))]
             /\ IF n > 0 /\ k = write_size
                THEN /\ total' = [total EXCEPT ![i] = @ + write_size]
                     /\ wpc' = [wpc EXCEPT ![i] =
                                   IF total[i] + write_size >= BytesTo(i)
                                   THEN "wait" ELSE "io"]
                     /\ UNCHANGED attempt
                ELSE IF n = 0 /\ total[i] = BytesTo(i)
                THEN /\ wpc' = [wpc EXCEPT ![i] = "wait"]
                     /\ UNCHANGED <<attempt, total>>
                ELSE /\ Failed(i)
                     /\ UNCHANGED total
    /\ UNCHANGED <<notXfer, flags_lock, dir, source, num_streams, retries, file_size, cpc, spawned,
                   joined, asm, tries, conn, retry_flag, streams_completed,
                   dest, stats_printed, exit_code>>

\* stream_stream_from_remote, the Ok arm: child.wait().  A success returns
\* Ok; a non-zero status or a failed wait counts an attempt and goes round.
PullWait(i) ==
    /\ dir = "pull"
    /\ wpc[i] = "wait"
    /\ \E success \in BOOLEAN :
        IF success
        THEN /\ wpc' = [wpc EXCEPT ![i] = "ret_ok"]
             /\ UNCHANGED attempt
        ELSE /\ wpc' = [wpc EXCEPT ![i] = "top"]
             /\ attempt' = [attempt EXCEPT ![i] = @ + 1]
    /\ UNCHANGED <<notXfer, flags_lock, dir, source, num_streams, retries, file_size, cpc, spawned,
                   joined, asm, tries, total, conn, stream_file, retry_flag,
                   streams_completed, dest, stats_printed, exit_code>>

\* stream_stream_to_remote, from the loop's test to the write loop: the test,
\* spawn() of `ssh .. "cat > <path>/stream_<i>.bin"`, File::open and seek.
\* up: the child reaches the remote shell, whose redirection empties the file.
PushBegin(i) ==
    /\ dir = "push"
    /\ wpc[i] = "top"
    /\ IF WhileCond(attempt[i], retries)
       THEN /\ tries' = [tries EXCEPT ![i] = @ + 1]
            /\ \E o \in {"spawn_err", "open_err", "ok"}, up \in BOOLEAN :
                /\ o = "spawn_err" => ~up
                /\ conn' = [conn EXCEPT ![i] = up]
                /\ stream_file' = IF up
                                  THEN [stream_file EXCEPT ![i] = FileOf(<<>>)]
                                  ELSE stream_file
                /\ IF o = "ok"
                   THEN /\ total' = [total EXCEPT ![i] = TotalAtStart(@)]
                        /\ wpc' = [wpc EXCEPT ![i] = "io"]
                        /\ UNCHANGED attempt
                   ELSE /\ Failed(i)
                        /\ UNCHANGED total
       ELSE /\ wpc' = [wpc EXCEPT ![i] = "ret_err"]
            /\ UNCHANGED <<tries, stream_file, total, attempt, conn>>
    /\ UNCHANGED <<notXfer, flags_lock, dir, source, num_streams, retries, file_size, cpc, spawned,
                   joined, asm, retry_flag, streams_completed, dest,
                   stats_printed, exit_code>>

\* stream_stream_to_remote, one turn of `while total_written < bytes_to_transfer`.
\* n = -1: file.read fails; n = 0: end of the local file (break, and the
\* attempt ends incomplete); n > 0: n bytes read.  ok: stdin.write_all
\* succeeds; k: the bytes of the n that reach the remote file (none when the
\* child is not up; fewer than n when write_all fails).
PushWrite(i) ==
    /\ dir = "push"
    /\ wpc[i] = "io"
    /\ total[i] < BytesTo(i)
    /\ LET to_read == Min(BUFFER_SIZE, BytesTo(i) - total[i])
           avail == Len(source) - (Start(i) + total[i])
       IN \E n \in (-1)..Min(to_read, avail), ok \in BOOLEAN :
          \E k \in 0..Max(0, n) :
             /\ n = 0 => avail = 0
             /\ ok => n > 0
             /\ conn[i] => (ok <=> (n > 0 /\ k = n))
             /\ ~conn[i] => k = 0
             /\ stream_file' =
                   IF conn[i]
                   THEN [stream_file EXCEPT
                            ![i] = FileOf(@.data \o Slice(source, Start(i) + total[i], k))]
                   ELSE stream_file
             /\ IF ok
                THEN /\ total' = [total EXCEPT ![i] = @ + n]
                     /\ UNCHANGED <<attempt, wpc>>
                ELSE /\ Failed(i)
                     /\ UNCHANGED total
    /\ UNCHANGED <<notXfer, flags_lock, dir, source, num_streams, retries, file_size, cpc, spawned,
                   joined, asm, tries, conn, retry_flag, streams_completed,
                   dest, stats_printed, exit_code>>

\* stream_stream_to_remote, after the loop: stdin.flush()?, drop(stdin) and
\* the test total_written == bytes_to_transfer.
PushFinish(i) ==
    /\ dir = "push"
    /\ wpc[i] = "io"
    /\ total[i] >= BytesTo(i)
    /\ \E ok \in BOOLEAN :
        IF ok /\ total[i] = BytesTo(i)
        THEN /\ wpc' = [wpc EXCEPT ![i] = "wait"]
             /\ UNCHANGED attempt
        ELSE Failed(i)
    /\ UNCHANGED <<notXfer, flags_lock, dir, source, num_streams, retries, file_size, cpc, spawned,
                   joined, asm, tries, total, conn, stream_file, retry_flag,
                   streams_completed, dest, stats_printed, exit_code>>

\* stream_stream_to_remote, the Ok arm: child.wait().  ssh exits 0 only when
\* the remote cat has written all it was sent.
PushWait(i) ==
    /\ dir = "push"
    /\ wpc[i] = "wait"
    /\ \E success \in BOOLEAN :
        /\ success => conn[i]
        /\ IF success
           THEN /\ wpc' = [wpc EXCEPT ![i] = "ret_ok"]
                /\ UNCHANGED attempt
           ELSE /\ wpc' = [wpc EXCEPT ![i] = "top"]
                /\ attempt' = [attempt EXCEPT ![i] = @ + 1]
    /\ UNCHANGED <<notXfer, flags_lock, dir, source, num_streams, retries, file_size, cpc, spawned,
                   joined, asm, tries, total, conn, stream_file, retry_flag,
                   streams_completed, dest, stats_printed, exit_code>>

\* ssh_comm.rs: thread::sleep(Duration::from_secs(RETRY_DELAY_SECONDS)), then
\* the loop's next turn.
Sleep(i) ==
    /\ wpc[i] = "sleep"
    /\ wpc' = [wpc EXCEPT ![i] = "top"]
    /\ UNCHANGED <<notXfer, flags_lock, dir, source, num_streams, retries, file_size, cpc, spawned,
                   joined, asm, attempt, tries, total, conn, stream_file,
                   retry_flag, streams_completed, dest, stats_printed,
                   exit_code>>

\* A slip of RaiseFlag: the thread raises the first slot.
RaiseFlagFirst(flags, i) == [flags EXCEPT ![0] = TRUE]
\* utils.rs: flags[stream_num] = true;
RaiseFlag(flags, i) == [flags EXCEPT ![i] = TRUE]

\* A slip of Incremented: the counter is written from a stale read of 0.
IncrementedStale(n) == 1
\* utils.rs: stats.streams_completed += 1; under the stats mutex
Incremented(n) == n + 1

\* utils.rs, the thread's match on the worker's result:
\*   Ok(_) => stats.streams_completed += 1
\*   Err(e) => flags[stream_num] = true
\* each under its mutex, taken for the update alone (the Err arm prints
\* before it locks); the thread then ends.
Record(i) ==
    /\ wpc[i] \in {"ret_ok", "ret_err"}
    /\ wpc[i] = "ret_err" => flags_lock = "none"
    /\ IF wpc[i] = "ret_ok"
       THEN /\ streams_completed' = Incremented(streams_completed)
            /\ UNCHANGED retry_flag
       ELSE /\ retry_flag' = RaiseFlag(retry_flag, i)
            /\ UNCHANGED streams_completed
    /\ wpc' = [wpc EXCEPT ![i] = "done"]
    /\ UNCHANGED <<notXfer, flags_lock, dir, source, num_streams, retries, file_size, cpc, spawned,
                   joined, asm, attempt, tries, total, conn, stream_file,
                   dest, stats_printed, exit_code>>

WorkerNext(i) ==
    \/ PullBegin(i)
    \/ PullRead(i)
    \/ PullWait(i)
    \/ PushBegin(i)
    \/ PushWrite(i)
    \/ PushFinish(i)
    \/ PushWait(i)
    \/ Sleep(i)
    \/ Record(i)

XferNext ==
    \/ CStat
    \/ CSpawn
    \/ CJoin
    \/ CCheck
    \/ CAssembleCreate
    \/ CAssembleCopy
    \/ CAssembleRemote
    \/ \E i \in Streams : PullBegin(i)
    \/ \E i \in Streams : PullRead(i)
    \/ \E i \in Streams : PullWait(i)
    \/ \E i \in Streams : PushBegin(i)
    \/ \E i \in Streams : PushWrite(i)
    \/ \E i \in Streams : PushFinish(i)
    \/ \E i \in Streams : PushWait(i)
    \/ \E i \in Streams : Sleep(i)
    \/ \E i \in Streams : Record(i)

\* ==================================================================== sftp
\* ssh.rs: let bytes_to_read = (end - start) as usize; (bytes_to_write on push)
SBytes == s_end - s_start

SftpInit ==
    /\ sftp_fn \in {"pull", "push"}
    /\ \E S \in 0..SftpMaxSize :
          /\ s_source = SourceOf(S)
          /\ s_end \in 0..(S + 1)
          /\ s_start \in 0..s_end
          \* the destination: extended to the source's size, empty, or (a
          \* remote path) missing
          /\ s_dest \in {FileOf(Zeros(S)), FileOf(<<>>)}
                        \cup (IF sftp_fn = "push" THEN {NoFile} ELSE {})
    /\ s_retries \in 0..SftpMaxRetries
    /\ s_pc = "top"
    /\ s_attempt = 0
    /\ s_tries = 0
    /\ s_sessions = 0
    /\ s_total = 0
    /\ s_buf = <<>>
    /\ s_written = 0
    /\ s_rpos = 0
    /\ s_lpos = 0
    /\ s_sess = 0
    /\ s_calls = 0
    /\ s_dropped = {}
    /\ s_build \in (IF sftp_fn = "pull" THEN {"unix", "windows"} ELSE {"none"})
    /\ s_cur = 0
    /\ s_par = 0

SftpOff ==
    /\ sftp_fn = "off"
    /\ s_source = <<>>
    /\ s_dest = NoFile
    /\ s_start = 0
    /\ s_end = 0
    /\ s_retries = 0
    /\ s_pc = "off"
    /\ s_attempt = 0
    /\ s_tries = 0
    /\ s_sessions = 0
    /\ s_total = 0
    /\ s_buf = <<>>
    /\ s_written = 0
    /\ s_rpos = 0
    /\ s_lpos = 0
    /\ s_sess = 0
    /\ s_calls = 0
    /\ s_dropped = {}
    /\ s_build = "off"
    /\ s_cur = 0
    /\ s_par = 0

\* pull_worker, push_worker: the Err arm of `match result`.
SFailed ==
    /\ s_attempt' = s_attempt + 1
    /\ s_pc' = ErrArm(s_attempt + 1, s_retries)

\* A slip of SLoop: the loop ends after its first buffer.
SLoopOnce(tot) == "ret_ok"
\* pull_worker, push_worker, after `total += n`: the loop's test, and past the
\* loop the closure's Ok(()) and `Ok(_) => return Ok(())`.
SLoop(tot) == IF tot < SBytes THEN "read" ELSE "ret_ok"

\* A slip of SeekTo: the handle stays at the file's start.
SeekToZero(start) == 0
\* ssh.rs: remote.seek(SeekFrom::Start(start))?; local.seek(SeekFrom::Start(start))?;
\* the cursor after the seek
SeekTo(start) == start

\* A slip of SessionOf: the session of the attempt before is used again.
SessionPooled(prev, new) == IF prev > 0 THEN prev ELSE new
\* ssh.rs: let sess = connect_and_auth(cfg)?; let sftp = open_sftp(&sess)?;
\* inside the closure of the attempt: the session the attempt works on, prev
\* being the session of the attempt before and new the one connect_and_auth
\* returns now.
SessionOf(prev, new) == new

\* pull_worker, push_worker, from the loop's test to the transfer loop:
\* connect_and_auth, open_sftp, the remote open and seek (push: and the local
\* open and seek).  o = "connect_err": no session; "open_err": a session, and
\* open or seek fails.
SftpBegin ==
    /\ s_pc = "top"
    /\ IF WhileCond(s_attempt, s_retries)
       THEN /\ s_tries' = s_tries + 1
            /\ \E o \in {"connect_err", "open_err", "ok"} :
                /\ (o = "ok" /\ sftp_fn = "push") => s_dest.exists
                /\ s_sessions' = IF o = "connect_err" THEN s_sessions
                                 ELSE s_sessions + 1
                /\ LET new == s_calls + 1
                       sess == IF o = "connect_err" THEN 0
                               ELSE SessionOf(s_sess, new)
                   IN /\ s_sess' = sess
                      /\ s_calls' = IF sess \in {0, new} THEN new ELSE s_calls
                      /\ s_dropped' = IF o = "open_err"
                                      THEN s_dropped \cup {sess}
                                      ELSE s_dropped
                /\ IF o = "ok"
                   THEN /\ s_rpos' = SeekTo(s_start)
                        /\ s_lpos' = IF sftp_fn = "push" THEN SeekTo(s_start)
                                                         ELSE s_lpos
                        /\ s_total' = TotalAtStart(s_total)
                        /\ s_pc' = SLoop(0)
                        /\ UNCHANGED s_attempt
                   ELSE /\ SFailed
                        /\ UNCHANGED <<s_rpos, s_lpos, s_total>>
       ELSE /\ s_pc' = "ret_err"
            /\ UNCHANGED <<s_tries, s_sessions, s_rpos, s_lpos, s_total,
                           s_attempt, s_sess, s_calls, s_dropped>>
    /\ UNCHANGED <<notSftp, sftp_fn, s_source, s_dest, s_start, s_end,
                   s_retries, s_buf, s_written, s_build, s_cur, s_par>>

\* One read of the transfer loop: remote.read (pull) or local.read (push) of
\* at most min(BUFFER_SIZE, bytes left) bytes at the handle's cursor.
\* n = -1: the read fails; n = 0: the end of the file (an error); n > 0: a
\* read of n bytes, short or full.
SftpRead ==
    /\ s_pc = "read"
    /\ LET to_read == Min(BUFFER_SIZE, SBytes - s_total)
           pos == IF sftp_fn = "pull" THEN s_rpos ELSE s_lpos
           avail == Max(0, Len(s_source) - pos)
       IN \E n \in (-1)..Min(to_read, avail) :
             /\ n = 0 => avail = 0
             /\ IF n > 0
                THEN /\ s_buf' = Slice(s_source, pos, n)
                     /\ s_rpos' = IF sftp_fn = "pull" THEN s_rpos + n ELSE s_rpos
                     /\ s_lpos' = IF sftp_fn = "push" THEN s_lpos + n ELSE s_lpos
                     /\ s_written' = 0
                     /\ s_par' = 0
                     /\ s_pc' = "write"
                     /\ UNCHANGED <<s_attempt, s_dropped>>
                ELSE /\ SFailed
                     /\ s_dropped' = s_dropped \cup {s_sess}
                     /\ UNCHANGED <<s_buf, s_rpos, s_lpos, s_written, s_par>>
    /\ UNCHANGED <<notSftp, sftp_fn, s_source, s_dest, s_start, s_end,
                   s_retries, s_tries, s_sessions, s_total, s_sess, s_calls,
                   s_build, s_cur>>

\* A slip of PullOffset: the bytes already written of the buffer are forgotten.
PullOffsetNoWritten(start, tot, written) == start + tot
\* pull_worker: let offset = start + total_read as u64; .. offset + written as u64
PullOffset(start, tot, written) == start + tot + written

\* ssh.rs write_at_local: the cursor of the handle after w bytes have been
\* written at offset.  Unix: FileExt::write_at (pwrite) leaves the cursor
\* alone; Windows: FileExt::seek_write sets it to the end of the write.
CursorAfterWriteAt(build, cur, offset, w) ==
    IF build = "windows" THEN offset + w ELSE cur

\* One write of `while written < n`: write_at_local(local_file,
\* &buffer[written..n], offset + written) on pull, remote.write(
\* &buffer[written..n]) at the remote cursor on push.  w = -1: the write
\* fails; w >= 0: it takes w bytes.  After the last, total += n.
SftpWrite ==
    /\ s_pc = "write"
    /\ LET n == Len(s_buf) IN
       \E w \in (-1)..(n - s_written) :
          IF w >= 0
          THEN /\ s_dest' =
                    FileOf(WriteAt(s_dest.data,
                                   IF sftp_fn = "pull"
                                   THEN PullOffset(s_start, s_total, s_written)
                                   ELSE s_rpos,
                                   SubSeq(s_buf, s_written + 1, s_written + w)))
               /\ s_rpos' = IF sftp_fn = "push" THEN s_rpos + w ELSE s_rpos
               /\ s_cur' = IF sftp_fn = "pull"
                           THEN CursorAfterWriteAt(
                                    s_build, s_cur,
                                    PullOffset(s_start, s_total, s_written), w)
                           ELSE s_cur
               /\ s_par' = IF s_written + w < n THEN 1 - s_par ELSE 0
               /\ s_written' = s_written + w
               /\ s_total' = IF s_written + w < n THEN s_total ELSE s_total + n
               /\ s_pc' = IF s_written + w < n THEN "write" ELSE SLoop(s_total + n)
               /\ UNCHANGED <<s_attempt, s_dropped>>
          ELSE /\ SFailed
               /\ s_dropped' = s_dropped \cup {s_sess}
               /\ UNCHANGED <<s_dest, s_rpos, s_written, s_total, s_cur, s_par>>
    /\ UNCHANGED <<notSftp, sftp_fn, s_source, s_start, s_end, s_retries,
                   s_tries, s_sessions, s_buf, s_lpos, s_sess, s_calls,
                   s_build>>

\* ssh.rs: thread::sleep(calculate_retry_delay(attempt - 1)), then the loop's
\* next turn.
SftpSleep ==
    /\ s_pc = "sleep"
    /\ s_pc' = "top"
    /\ UNCHANGED <<notSftp, sftp_fn, s_source, s_dest, s_start, s_end,
                   s_retries, s_attempt, s_tries, s_sessions, s_total, s_buf,
                   s_written, s_rpos, s_lpos, s_sess, s_calls, s_dropped,
                   s_build, s_cur, s_par>>

SftpNext ==
    \/ SftpBegin
    \/ SftpRead
    \/ SftpWrite
    \/ SftpSleep

\* =================================================================== delay
\* ssh.rs: the retry delays of one worker all of whose attempts fail.
\* u64 values are kept at their width, as four 16-bit limbs, lowest first.
Limb == 2 ^ 16

\* x * c in u64 for a c below 2^15: the wrapped product and whether it
\* overflowed.
U64Mul(x, c) ==
    LET p1 == x[1] * c
        p2 == x[2] * c + (p1 \div Limb)
        p3 == x[3] * c + (p2 \div Limb)
        p4 == x[4] * c + (p3 \div Limb)
    IN [val |-> <<p1 % Limb, p2 % Limb, p3 % Limb, p4 % Limb>>,
        over |-> (p4 \div Limb) > 0]

\* 2_u64.pow(exp): the limbs of 2^exp mod 2^64; it overflows iff exp >= 64.
U64Pow2(exp) ==
    [val |-> [i \in 1..4 |-> IF i = (exp \div 16) + 1 THEN 2 ^ (exp % 16) ELSE 0],
     over |-> exp >= 64]

\* std::cmp::min(x, m) for a u64 x and an m below 2^16
U64MinSmall(x, m) ==
    IF x[2] = 0 /\ x[3] = 0 /\ x[4] = 0 /\ x[1] < m THEN x[1] ELSE m

\* ssh.rs: const BASE_RETRY_DELAY_MS, MAX_RETRY_DELAY_MS
BASE_RETRY_DELAY_MS == 1000
MAX_RETRY_DELAY_MS == 30000

\* ssh.rs calculate_retry_delay:
\*   min(BASE_RETRY_DELAY_MS * 2_u64.pow(attempt), MAX_RETRY_DELAY_MS)
\* val: the value when the operations wrap; over: one of them overflowed.
DelayMs(att) ==
    LET pw == U64Pow2(att)
        pr == U64Mul(pw.val, BASE_RETRY_DELAY_MS)
    IN [val |-> U64MinSmall(pr.val, MAX_RETRY_DELAY_MS),
        over |-> pw.over \/ pr.over]

\* `as i64` of a quotient: rounded towards zero
TruncDiv(a, b) == IF a >= 0 THEN a \div b ELSE -((-a) \div b)
\* ssh.rs: (delay_ms as f64 * 0.2 * (rand::random::<f64>() - 0.5)) as i64,
\* for the random number j / JitterSteps of [0, 1)
Jitter(delay_ms, j) == TruncDiv(delay_ms * (2 * j - JitterSteps), 10 * JitterSteps)
\* ssh.rs: (delay_ms as i64 + jitter).max(0) as u64
FinalDelay(delay_ms, jitter) == Max(delay_ms + jitter, 0)

DelayInit ==
    /\ d_checks \in BOOLEAN
    /\ d_retries \in 0..DelayMaxRetries
    /\ d_attempt = 0
    /\ d_pc = "err"
    /\ d_delay_ms = 0
    /\ d_prev = 0
    /\ d_wrapped = FALSE
    /\ d_final = 0

DelayOff ==
    /\ d_checks = FALSE
    /\ d_retries = -1
    /\ d_attempt = 0
    /\ d_pc = "off"
    /\ d_delay_ms = 0
    /\ d_prev = 0
    /\ d_wrapped = FALSE
    /\ d_final = 0

\* pull_worker, push_worker, the Err arm: attempt += 1 and the test
\* attempt > cfg.retries.
DelayErr ==
    /\ d_pc = "err"
    /\ d_attempt' = d_attempt + 1
    /\ d_pc' = IF ErrArm(d_attempt + 1, d_retries) = "ret_err"
               THEN "ret_err" ELSE "calc"
    /\ d_final' = 0
    /\ UNCHANGED <<notDelay, d_checks, d_retries, d_delay_ms, d_prev, d_wrapped>>

\* calculate_retry_delay(attempt - 1), up to delay_ms.  An overflow panics
\* in a build that checks it and wraps in one that does not.
DelayCalc ==
    /\ d_pc = "calc"
    /\ LET r == DelayMs(d_attempt - 1) IN
       IF r.over /\ d_checks
       THEN /\ d_pc' = "panic"
            /\ UNCHANGED <<d_delay_ms, d_prev, d_wrapped>>
       ELSE /\ d_pc' = "jitter"
            /\ d_delay_ms' = r.val
            /\ d_prev' = d_delay_ms
            /\ d_wrapped' = (d_wrapped \/ r.over)
    /\ UNCHANGED <<notDelay, d_checks, d_retries, d_attempt, d_final>>

\* calculate_retry_delay, the jitter and final_delay; then thread::sleep(delay)
\* and the next attempt, which fails.
DelayJitter ==
    /\ d_pc = "jitter"
    /\ \E j \in 0..(JitterSteps - 1) :
          d_final' = FinalDelay(d_delay_ms, Jitter(d_delay_ms, j))
    /\ d_pc' = "sleep"
    /\ UNCHANGED <<notDelay, d_checks, d_retries, d_attempt, d_delay_ms, d_prev,
                   d_wrapped>>

DelaySleep ==
    /\ d_pc = "sleep"
    /\ d_pc' = "err"
    /\ UNCHANGED <<notDelay, d_checks, d_retries, d_attempt, d_delay_ms, d_prev,
                   d_wrapped, d_final>>

DelayNext ==
    \/ DelayErr
    \/ DelayCalc
    \/ DelayJitter
    \/ DelaySleep

\* ===================================================================== cli
\* main.rs: the two locations of the command line and their validation.
\* Strings are sequences of characters: "a" stands for a character that is
\* neither '@' nor ':'.
StringsUpTo(alphabet, n) == UNION {[1..k -> alphabet] : k \in 0..n}
Locations == StringsUpTo({"a", "@", ":"}, LocMaxLen)
NumArgs == StringsUpTo({"0", "1", "2", "+", "-"}, NumArgMaxLen)

\* str::contains(ch)
Contains(s, ch) == \E i \in 1..Len(s) : s[i] = ch
\* the index of the first ch of s (one past the end when there is none)
FirstIndex(s, ch) ==
    IF Contains(s, ch)
    THEN CHOOSE i \in 1..Len(s) : s[i] = ch /\ \A j \in 1..(i - 1) : s[j] /= ch
    ELSE Len(s) + 1
\* loc.splitn(2, ':'): parts[0] and parts[1]
BeforeFirst(s, ch) == SubSeq(s, 1, FirstIndex(s, ch) - 1)
AfterFirst(s, ch) == SubSeq(s, FirstIndex(s, ch) + 1, Len(s))
\* the number of parts of user_host.split('@')
SplitCount(s, ch) == Cardinality({i \in 1..Len(s) : s[i] = ch}) + 1
\* user_host.starts_with('@'), user_host.ends_with('@')
StartsWith(s, ch) == Len(s) > 0 /\ s[1] = ch
EndsWith(s, ch) == Len(s) > 0 /\ s[Len(s)] = ch

\* env::var("USER"): unset, or set to a value (which may be empty)
UserUnset == [set |-> FALSE, val |-> <<>>]
UserSet(v) == [set |-> TRUE, val |-> v]

\* parse_location's results: None, Some((None, path)), Some((Some((user,
\* host)), path)); Unparsed: parse_location has not been called.
Unparsed == [called |-> FALSE, ok |-> FALSE, remote |-> FALSE,
             user |-> <<>>, host |-> <<>>, path |-> <<>>]
ParseNone == [called |-> TRUE, ok |-> FALSE, remote |-> FALSE,
              user |-> <<>>, host |-> <<>>, path |-> <<>>]
ParseLocal(path) == [called |-> TRUE, ok |-> TRUE, remote |-> FALSE,
                     user |-> <<>>, host |-> <<>>, path |-> path]
ParseRemote(user, host, path) ==
    [called |-> TRUE, ok |-> TRUE, remote |-> TRUE,
     user |-> user, host |-> host, path |-> path]

\* main.rs parse_location(loc), with USER as the environment has it
parse_location(loc, user_env) ==
    IF Contains(loc, ":")
    THEN LET user_host == BeforeFirst(loc, ":")
             rest == AfterFirst(loc, ":")
             path == IF rest = <<>> THEN <<".">> ELSE rest
         IN IF StartsWith(user_host, "@") THEN ParseNone
            ELSE IF EndsWith(user_host, "@") THEN ParseNone
            ELSE IF SplitCount(user_host, "@") = 2
                 THEN ParseRemote(BeforeFirst(user_host, "@"),
                                  AfterFirst(user_host, "@"), path)
            ELSE IF SplitCount(user_host, "@") = 1
                 THEN (IF user_env.set
                       THEN ParseRemote(user_env.val, user_host, path)
                       ELSE ParseNone)
            ELSE ParseNone
    ELSE ParseLocal(loc)

\* A slip of SourceIsValid: is_file() is not asked.
SourceExists(kind) == kind /= "missing"
\* validate_paths: the local source passes path.exists() and path.is_file()
SourceIsValid(kind) == kind = "file"
\* validate_paths: the local destination passes path.exists() and path.is_dir()
DestIsValid(kind) == kind = "dir"

\* validate_paths(source, destination) for the parse results sp, dp and the
\* kinds sk, dk of the local paths: TRUE for Ok(()), FALSE for Err(..).
validate_paths(sp, dp, sk, dk) ==
    IF ~sp.ok THEN FALSE
    ELSE IF ~dp.ok THEN FALSE
    ELSE IF sp.remote /\ dp.remote THEN FALSE
    ELSE IF ~sp.remote /\ ~dp.remote THEN FALSE
    ELSE IF ~sp.remote /\ ~SourceIsValid(sk) THEN FALSE
    ELSE IF ~dp.remote /\ ~DestIsValid(dk) THEN FALSE
    ELSE TRUE

\* What the file system can hold at a path: nothing at the empty path.
PathKinds(path) ==
    IF path = <<>> THEN {"missing"} ELSE {"missing", "file", "dir", "other"}

\* str::parse::<usize>(): an optional '+', then one digit or more.  (A value
\* past usize::MAX is an Err too: no argument of the model is that long.)
Digit(ch) == CASE ch = "0" -> 0 [] ch = "1" -> 1 [] ch = "2" -> 2 [] OTHER -> -1
RECURSIVE DecimalValue(_)
DecimalValue(s) ==
    IF s = <<>> THEN 0
    ELSE 10 * DecimalValue(SubSeq(s, 1, Len(s) - 1)) + Digit(s[Len(s)])
ParseUsize(s) ==
    LET digits == IF StartsWith(s, "+") THEN Tail(s) ELSE s IN
    IF digits /= <<>> /\ \A i \in 1..Len(digits) : Digit(digits[i]) >= 0
    THEN [ok |-> TRUE, val |-> DecimalValue(digits)]
    ELSE [ok |-> FALSE, val |-> 0]

CliInit ==
    /\ c_src \in Locations
    /\ c_dst \in Locations
    /\ c_user \in {UserUnset, UserSet(<<>>), UserSet(<<"a">>)}
    /\ c_srcp = Unparsed
    /\ c_dstp = Unparsed
    /\ c_srckind = "unread"
    /\ c_dstkind = "unread"
    /\ c_pc = "validate"
    /\ c_exit = -1
    /\ c_msg = "none"

CliOff ==
    /\ c_src = <<>>
    /\ c_dst = <<>>
    /\ c_user = UserUnset
    /\ c_srcp = Unparsed
    /\ c_dstp = Unparsed
    /\ c_srckind = "unread"
    /\ c_dstkind = "unread"
    /\ c_pc = "off"
    /\ c_exit = -1
    /\ c_msg = "none"

\* main.rs: if let Err(e) = validate_paths(source, destination) {
\*              eprintln!("Error: {}", e); process::exit(1); }
\* and the two parse_location(..).unwrap() after it.  validate_paths parses
\* the destination only when the source parsed, and looks at a local path
\* only when exactly one location is remote.
CliValidate ==
    /\ c_pc = "validate"
    /\ LET sp == parse_location(c_src, c_user)
           dp == IF sp.ok THEN parse_location(c_dst, c_user) ELSE Unparsed
           one == sp.ok /\ dp.ok /\ (sp.remote /= dp.remote)
       IN \E sk \in (IF one /\ ~sp.remote THEN PathKinds(sp.path) ELSE {"unread"}) :
          \E dk \in (IF one /\ ~dp.remote /\ (sp.remote \/ SourceIsValid(sk))
                     THEN PathKinds(dp.path) ELSE {"unread"}) :
             /\ c_srcp' = sp
             /\ c_dstp' = dp
             /\ c_srckind' = sk
             /\ c_dstkind' = dk
             /\ IF validate_paths(sp, dp, sk, dk)
                THEN /\ c_pc' = "args"
                     /\ UNCHANGED <<c_exit, c_msg>>
                ELSE /\ c_pc' = "exit"
                     /\ c_exit' = 1
                     /\ c_msg' = "validate"
    /\ UNCHANGED <<notCli, c_src, c_dst, c_user>>

CliNext == CliValidate

\* ==================================================================== args
\* main.rs after validate_paths has accepted the locations: the numeric
\* arguments, the dispatch on the direction and the transfer function up to
\* its spawn loop.
ArgsInit ==
    /\ a_dir \in {"pull", "push"}
    /\ a_sarg = <<>>
    /\ a_num_streams = -1
    /\ a_pc = "streams"
    /\ a_exit = -1
    /\ a_msg = "none"
    /\ a_net = FALSE

ArgsOff ==
    /\ a_dir = "off"
    /\ a_sarg = <<>>
    /\ a_num_streams = -1
    /\ a_pc = "off"
    /\ a_exit = -1
    /\ a_msg = "none"
    /\ a_net = FALSE

\* main.rs: let num_streams: usize = matches.value_of("streams").unwrap()
\*     .parse().unwrap_or_else(|_| { eprintln!(..); process::exit(1); });
\* The value is the one given, or the default "20".
ArgsStreams ==
    /\ a_pc = "streams"
    /\ \E arg \in NumArgs :
          /\ a_sarg' = arg
          /\ IF ParseUsize(arg).ok
             THEN /\ a_num_streams' = ParseUsize(arg).val
                  /\ a_pc' = "port"
                  /\ UNCHANGED <<a_exit, a_msg>>
             ELSE /\ a_pc' = "exit"
                  /\ a_exit' = 1
                  /\ a_msg' = "streams"
                  /\ UNCHANGED a_num_streams
    /\ UNCHANGED <<notArgs, a_dir, a_net>>

\* main.rs: ssh_port, parsed as num_streams is.
ArgsPort ==
    /\ a_pc = "port"
    /\ \E arg \in NumArgs :
          IF ParseUsize(arg).ok
          THEN /\ a_pc' = "retries"
               /\ UNCHANGED <<a_exit, a_msg>>
          ELSE /\ a_pc' = "exit"
               /\ a_exit' = 1
               /\ a_msg' = "port"
    /\ UNCHANGED <<notArgs, a_dir, a_sarg, a_num_streams, a_net>>

\* main.rs: retries, a u32 parsed the same way.
ArgsRetries ==
    /\ a_pc = "retries"
    /\ \E arg \in NumArgs :
          IF ParseUsize(arg).ok
          THEN /\ a_pc' = "dispatch"
               /\ UNCHANGED <<a_exit, a_msg>>
          ELSE /\ a_pc' = "exit"
               /\ a_exit' = 1
               /\ a_msg' = "retries"
    /\ UNCHANGED <<notArgs, a_dir, a_sarg, a_num_streams, a_net>>

\* main.rs: match (source_remote, dest_remote) (its last arm is not reached:
\* validate_paths has passed), and the transfer function it
\* calls up to its spawn loop (utils.rs):
\*   pull: get_remote_file_size runs `ssh .. wc -c`; its Err is returned and
\*         main exits 1;
\*   push: fs::metadata; on its Err the function prints and returns, and
\*         main falls off its end;
\*   then file_size / num_streams, which panics when num_streams is 0, and
\*   the spawn loop, which spawns no thread when num_streams is 0.
ArgsDispatch ==
    /\ a_pc = "dispatch"
    /\ a_net' = (a_dir = "pull")
    /\ \E ok \in BOOLEAN :
         IF ~ok
         THEN /\ a_pc' = "exit"
              /\ a_exit' = MainExit(a_dir, FALSE)
              /\ a_msg' = "size"
         ELSE IF a_num_streams = 0
         THEN /\ a_pc' = "exit"
              /\ a_exit' = 101
              /\ a_msg' = "panic"
         ELSE /\ a_pc' = "spawn"
              /\ UNCHANGED <<a_exit, a_msg>>
    /\ UNCHANGED <<notArgs, a_dir, a_sarg, a_num_streams>>

ArgsNext ==
    \/ ArgsStreams
    \/ ArgsPort
    \/ ArgsRetries
    \/ ArgsDispatch


\* ==================================================================== auth
\* ssh.rs connect_and_auth: the connection, then the authentication chain.
\* The default keys, in the order of the vec! of connect_and_auth.
DefaultKeys == <<"id_ed25519", "id_rsa", "id_ecdsa">>

AuthInit ==
    /\ h_key \in BOOLEAN
    /\ h_home \in BOOLEAN
    /\ h_exists \in [1..Len(DefaultKeys) -> BOOLEAN]
    /\ h_pc = "connect"
    /\ h_k = 0
    /\ h_auth = FALSE
    /\ h_tried = <<>>
    /\ h_results = <<>>

AuthOff ==
    /\ h_key = FALSE
    /\ h_home = FALSE
    /\ h_exists = <<>>
    /\ h_pc = "off"
    /\ h_k = 0
    /\ h_auth = FALSE
    /\ h_tried = <<>>
    /\ h_results = <<>>

\* One sess.userauth_*(..) call of method m with result ok: the session is
\* authenticated from the first call that returns Ok.
Attempt(m, ok) ==
    /\ h_tried' = Append(h_tried, m)
    /\ h_results' = Append(h_results, ok)
    /\ h_auth' = (h_auth \/ ok)

\* to_socket_addrs()?, TcpStream::connect_timeout(..)?, set_nodelay(true)?,
\* Session::new()?, sess.handshake()?: any failure returns its error.
AuthConnect ==
    /\ h_pc = "connect"
    /\ \E ok \in BOOLEAN : h_pc' = IF ok THEN "explicit" ELSE "ret_err"
    /\ UNCHANGED <<notAuth, h_key, h_home, h_exists, h_k, h_auth, h_tried,
                   h_results>>

\* 1. if let Some(ref key_path) = cfg.key_path { if let Err(e) =
\*    sess.userauth_pubkey_file(..) { eprintln!(..) } }
AuthExplicit ==
    /\ h_pc = "explicit"
    /\ IF h_key
       THEN \E ok \in BOOLEAN : Attempt("explicit", ok)
       ELSE UNCHANGED <<h_auth, h_tried, h_results>>
    /\ h_pc' = "default"
    /\ UNCHANGED <<notAuth, h_key, h_home, h_exists, h_k>>

\* 2. if !sess.authenticated() { let default_keys = if let Some(..) = home
\*    { vec![..] } else { vec![] }; for key_path in default_keys { .. } }
AuthDefault ==
    /\ h_pc = "default"
    /\ IF ~h_auth /\ h_home
       THEN /\ h_pc' = "key"
            /\ h_k' = 1
       ELSE /\ h_pc' = "agent"
            /\ UNCHANGED h_k
    /\ UNCHANGED <<notAuth, h_key, h_home, h_exists, h_auth, h_tried,
                   h_results>>

\* A slip of AfterKey: the loop goes on after a key has authenticated.
AfterKeyNoBreak(ok, k) == k + 1
\* the default key the loop turns to after key k (past the last: the loop
\* ends): if sess.userauth_pubkey_file(..).is_ok() { break; }
AfterKey(ok, k) == IF ok THEN Len(DefaultKeys) + 1 ELSE k + 1

\* One turn of `for key_path in default_keys`: if key_path.exists() { if
\* sess.userauth_pubkey_file(..).is_ok() { break; } }
AuthKey ==
    /\ h_pc = "key"
    /\ IF h_k > Len(DefaultKeys)
       THEN /\ h_pc' = "agent"
            /\ UNCHANGED <<h_k, h_auth, h_tried, h_results>>
       ELSE /\ UNCHANGED h_pc
            /\ IF h_exists[h_k]
               THEN \E ok \in BOOLEAN :
                       /\ Attempt(DefaultKeys[h_k], ok)
                       /\ h_k' = AfterKey(ok, h_k)
               ELSE /\ h_k' = h_k + 1
                    /\ UNCHANGED <<h_auth, h_tried, h_results>>
    /\ UNCHANGED <<notAuth, h_key, h_home, h_exists>>

\* 3. if !sess.authenticated() { let _ = sess.userauth_agent(&cfg.user); }
AuthAgent ==
    /\ h_pc = "agent"
    /\ IF ~h_auth
       THEN \E ok \in BOOLEAN : Attempt("agent", ok)
       ELSE UNCHANGED <<h_auth, h_tried, h_results>>
    /\ h_pc' = "check"
    /\ UNCHANGED <<notAuth, h_key, h_home, h_exists, h_k>>

\* if !sess.authenticated() { return Err(PermissionDenied ..) } Ok(sess)
AuthCheck ==
    /\ h_pc = "check"
    /\ h_pc' = IF ~h_auth THEN "ret_denied" ELSE "ret_ok"
    /\ UNCHANGED <<notAuth, h_key, h_home, h_exists, h_k, h_auth, h_tried,
                   h_results>>

AuthNext ==
    \/ AuthConnect
    \/ AuthExplicit
    \/ AuthDefault
    \/ AuthKey
    \/ AuthAgent
    \/ AuthCheck

\* ================================================================== extend
\* ssh.rs extend_remote_file(sftp, path, size), and the writes of push
\* workers to the file once it has returned Ok.
\* A remote file of n bytes that are not zero.
OldFile(n) == FileOf([i \in 1..n |-> 7])

ExtInit ==
    /\ e_size \in 0..ExtMaxSize
    /\ e_before \in {NoFile} \cup {OldFile(n) : n \in 0..(ExtMaxSize + 1)}
    /\ e_file = e_before
    /\ e_pc = "open"
    /\ e_pos = 0
    /\ e_worked = FALSE

ExtOff ==
    /\ e_size = 0
    /\ e_before = NoFile
    /\ e_file = NoFile
    /\ e_pc = "off"
    /\ e_pos = 0
    /\ e_worked = FALSE

\* sftp.open_mode(path, CREATE | WRITE | TRUNCATE, 0o644, File)?: the file
\* exists and is empty, the cursor of the handle is 0; then `if size > 0`.
ExtOpen ==
    /\ e_pc = "open"
    /\ \E ok \in BOOLEAN :
        IF ok
        THEN /\ e_file' = FileOf(<<>>)
             /\ e_pos' = 0
             /\ e_pc' = IF e_size > 0 THEN "seek" ELSE "ret_ok"
        ELSE /\ e_pc' = "ret_err"
             /\ UNCHANGED <<e_file, e_pos>>
    /\ UNCHANGED <<notExt, e_before, e_size, e_worked>>

\* A slip of ExtendSeek: the byte is written at offset size.
ExtendSeekAtSize(size) == size
\* size.saturating_sub(1)
ExtendSeek(size) == Max(0, size - 1)

\* file.seek(SeekFrom::Start(size.saturating_sub(1)))?;
ExtSeek ==
    /\ e_pc = "seek"
    /\ \E ok \in BOOLEAN :
        IF ok
        THEN /\ e_pos' = ExtendSeek(e_size)
             /\ e_pc' = "write"
        ELSE /\ e_pc' = "ret_err"
             /\ UNCHANGED e_pos
    /\ UNCHANGED <<notExt, e_before, e_file, e_size, e_worked>>

\* file.write_all(&[0])?; Ok(()): the byte lands at the cursor, and the
\* server fills the gap before it with zeros.
ExtWrite ==
    /\ e_pc = "write"
    /\ \E ok \in BOOLEAN :
        IF ok
        THEN /\ e_file' = FileOf(WriteAt(e_file.data, e_pos, <<0>>))
             /\ e_pos' = e_pos + 1
             /\ e_pc' = "ret_ok"
        ELSE /\ e_pc' = "ret_err"
             /\ UNCHANGED <<e_file, e_pos>>
    /\ UNCHANGED <<notExt, e_before, e_size, e_worked>>

\* push_worker: remote.write(&buffer[written..n]) of w bytes at the cursor o
\* of its own handle, inside its segment and so inside [0, size).
ExtWorkerWrite ==
    /\ e_pc = "ret_ok"
    /\ \E o \in 0..(e_size - 1) :
       \E w \in 1..(e_size - o) :
          e_file' = FileOf(WriteAt(e_file.data, o, [i \in 1..w |-> 1]))
    /\ e_worked' = TRUE
    /\ UNCHANGED <<notExt, e_before, e_size, e_pc, e_pos>>

ExtNext ==
    \/ ExtOpen
    \/ ExtSeek
    \/ ExtWrite
    \/ ExtWorkerWrite

\* ==================================================================== locks
\* The two mutexes of a transfer, utils.rs: `stats` (TransferStats) and
\* `retry_flag` (the FailureMap). Each thread is followed from one lock()
\* to the next; what a worker transfers is left to the transfer machine,
\* here it only ends with Ok or with Err.
Free == <<"none", 0>>
Main == <<"main", 0>>
Worker(i) == <<"worker", i>>

LStreams == DOMAIN l_wpc

LockInit ==
    /\ l_dir \in {"push", "pull"}
    /\ l_n \in 1..LockMaxStreams
    /\ l_cpc = "spawn"
    /\ l_spawned = 0
    /\ l_joined = 0
    /\ l_wpc = [i \in 0..(l_n - 1) |-> "unspawned"]
    /\ l_stats = Free
    /\ l_flags = Free
    /\ l_retry_flag = [i \in 0..(l_n - 1) |-> FALSE]
    /\ l_completed = 0
    /\ l_printed = FALSE

LockOff ==
    /\ l_dir = "off"
    /\ l_n = 0
    /\ l_cpc = "off"
    /\ l_spawned = 0
    /\ l_joined = 0
    /\ l_wpc = << >>
    /\ l_stats = Free
    /\ l_flags = Free
    /\ l_retry_flag = << >>
    /\ l_completed = 0
    /\ l_printed = FALSE

\* a MutexGuard that is never dropped
DroppedNever(holder) == holder

\* the MutexGuard goes out of scope: the mutex is free again
Dropped(holder) == Free

\* for stream_num in 0..num_streams { ... thread::spawn(...) ... }
LSpawn ==
    /\ l_cpc = "spawn"
    /\ l_wpc' = [l_wpc EXCEPT ![l_spawned] = "run"]
    /\ l_spawned' = l_spawned + 1
    /\ l_cpc' = IF l_spawned + 1 = l_n THEN "join" ELSE "spawn"
    /\ UNCHANGED <<notLock, l_dir, l_n, l_joined, l_stats, l_flags,
                   l_retry_flag, l_completed, l_printed>>

\* for handle in handles { let _ = handle.join(); }
LJoin ==
    /\ l_cpc = "join"
    /\ l_wpc[l_joined] = "done"
    /\ l_joined' = l_joined + 1
    /\ l_cpc' = IF l_joined + 1 = l_n THEN "lock_flags" ELSE "join"
    /\ UNCHANGED <<notLock, l_dir, l_n, l_spawned, l_wpc, l_stats, l_flags,
                   l_retry_flag, l_completed, l_printed>>

\* let flags = retry_flag.lock().unwrap();
LLockFlags ==
    /\ l_cpc = "lock_flags"
    /\ l_flags = Free
    /\ l_flags' = Main
    /\ l_cpc' = "check"
    /\ UNCHANGED <<notLock, l_dir, l_n, l_spawned, l_joined, l_wpc, l_stats,
                   l_retry_flag, l_completed, l_printed>>

\* if flags.iter().any(|&flag| flag) { report and return } else { assemble }
LCheck ==
    /\ l_cpc = "check"
    /\ IF \E i \in LStreams : l_retry_flag[i]
         THEN /\ l_flags' = Dropped(l_flags)
              /\ l_cpc' = "done"
         ELSE /\ l_flags' = l_flags
              /\ l_cpc' = "assemble"
    /\ UNCHANGED <<notLock, l_dir, l_n, l_spawned, l_joined, l_wpc, l_stats,
                   l_retry_flag, l_completed, l_printed>>

\* assemble_streams(...), which returns nothing, or
\* assemble_local_streams(...)?, whose error ends the function
LAssemble ==
    /\ l_cpc = "assemble"
    /\ \E ok \in (IF l_dir = "pull" THEN BOOLEAN ELSE {TRUE}) :
         IF ok
           THEN /\ l_flags' = l_flags
                /\ l_cpc' = "lock_stats"
           ELSE /\ l_flags' = Dropped(l_flags)
                /\ l_cpc' = "done"
    /\ UNCHANGED <<notLock, l_dir, l_n, l_spawned, l_joined, l_wpc, l_stats,
                   l_retry_flag, l_completed, l_printed>>

\* let stats = stats.lock().unwrap();
LLockStats ==
    /\ l_cpc = "lock_stats"
    /\ l_stats = Free
    /\ l_stats' = Main
    /\ l_cpc' = "print"
    /\ UNCHANGED <<notLock, l_dir, l_n, l_spawned, l_joined, l_wpc, l_flags,
                   l_retry_flag, l_completed, l_printed>>

\* print_transfer_stats(&stats, num_streams); and the function returns:
\* `stats` and `flags` are dropped
LPrint ==
    /\ l_cpc = "print"
    /\ l_printed' = TRUE
    /\ l_stats' = Dropped(l_stats)
    /\ l_flags' = Dropped(l_flags)
    /\ l_cpc' = "done"
    /\ UNCHANGED <<notLock, l_dir, l_n, l_spawned, l_joined, l_wpc,
                   l_retry_flag, l_completed>>

LCoordinator ==
    \/ LSpawn
    \/ LJoin
    \/ LLockFlags
    \/ LCheck
    \/ LAssemble
    \/ LLockStats
    \/ LPrint

\* match stream_stream_..(...) { Ok(_) => ..., Err(e) => { eprintln!; ... } }
LRun(i) ==
    /\ i \in LStreams
    /\ l_wpc[i] = "run"
    /\ \E ok \in BOOLEAN :
         l_wpc' = [l_wpc EXCEPT ![i] = IF ok THEN "want_stats"
                                             ELSE "want_flags"]
    /\ UNCHANGED <<notLock, l_dir, l_n, l_cpc, l_spawned, l_joined, l_stats,
                   l_flags, l_retry_flag, l_completed, l_printed>>

\* let mut stats = stats_clone.lock().unwrap();
LLockStatsW(i) ==
    /\ i \in LStreams
    /\ l_wpc[i] = "want_stats"
    /\ l_stats = Free
    /\ l_stats' = Worker(i)
    /\ l_wpc' = [l_wpc EXCEPT ![i] = "has_stats"]
    /\ UNCHANGED <<notLock, l_dir, l_n, l_cpc, l_spawned, l_joined, l_flags,
                   l_retry_flag, l_completed, l_printed>>

\* stats.streams_completed += 1; and the arm ends
LCount(i) ==
    /\ i \in LStreams
    /\ l_wpc[i] = "has_stats"
    /\ l_completed' = l_completed + 1
    /\ l_stats' = Dropped(l_stats)
    /\ l_wpc' = [l_wpc EXCEPT ![i] = "done"]
    /\ UNCHANGED <<notLock, l_dir, l_n, l_cpc, l_spawned, l_joined, l_flags,
                   l_retry_flag, l_printed>>

\* let mut flags = retry_flag_clone.lock().unwrap();
LLockFlagsW(i) ==
    /\ i \in LStreams
    /\ l_wpc[i] = "want_flags"
    /\ l_flags = Free
    /\ l_flags' = Worker(i)
    /\ l_wpc' = [l_wpc EXCEPT ![i] = "has_flags"]
    /\ UNCHANGED <<notLock, l_dir, l_n, l_cpc, l_spawned, l_joined, l_stats,
                   l_retry_flag, l_completed, l_printed>>

\* flags[stream_num] = true; and the arm ends
LRaise(i) ==
    /\ i \in LStreams
    /\ l_wpc[i] = "has_flags"
    /\ l_retry_flag' = [l_retry_flag EXCEPT ![i] = TRUE]
    /\ l_flags' = Dropped(l_flags)
    /\ l_wpc' = [l_wpc EXCEPT ![i] = "done"]
    /\ UNCHANGED <<notLock, l_dir, l_n, l_cpc, l_spawned, l_joined, l_stats,
                   l_completed, l_printed>>

LWorker(i) ==
    \/ LRun(i)
    \/ LLockStatsW(i)
    \/ LCount(i)
    \/ LLockFlagsW(i)
    \/ LRaise(i)

LockNext ==
    \/ LSpawn
    \/ LJoin
    \/ LLockFlags
    \/ LCheck
    \/ LAssemble
    \/ LLockStats
    \/ LPrint
    \/ \E i \in 0..(LockMaxStreams - 1) : LRun(i)
    \/ \E i \in 0..(LockMaxStreams - 1) : LLockStatsW(i)
    \/ \E i \in 0..(LockMaxStreams - 1) : LCount(i)
    \/ \E i \in 0..(LockMaxStreams - 1) : LLockFlagsW(i)
    \/ \E i \in 0..(LockMaxStreams - 1) : LRaise(i)

vars == <<planVars, xferVars, sftpVars, delayVars, cliVars, argsVars, authVars,
         extVars, lockVars>>

\* ================================================================== claims
\* ---- C1: in every pull transfer of a file of size S with N streams in
\* which every stream reports success and the assembly completes, the local
\* destination has length S and equals the remote source byte for byte.
PullDestEqualsSource ==
    (dir = "pull" /\ stats_printed) =>
        (dest.exists /\ dest.data = source)

\* ---- C2: in every push transfer, whenever the coordinator reports success
\* (prints the final statistics), the remote destination has length S and
\* equals the local source byte for byte.
PushDestEqualsSource ==
    (dir = "push" /\ stats_printed) =>
        (dest.exists /\ dest.data = source)

\* ---- C3: whenever pull_worker(start, end) returns Ok, the local file holds
\* at every offset of [start, end) the byte the remote file holds there,
\* whatever short reads, short positional writes and failed attempts came
\* before.
PullWorkerContract ==
    (sftp_fn = "pull" /\ s_pc = "ret_ok") =>
        \A o \in s_start..(s_end - 1) :
            /\ o < Len(s_source)
            /\ o < Len(s_dest.data)
            /\ s_dest.data[o + 1] = s_source[o + 1]

\* pull_worker has returned Ok for a segment of more than one buffer that
\* does not start at 0, after a failed attempt.
PullWorkerContractWitness ==
    /\ sftp_fn = "pull"
    /\ s_pc = "ret_ok"
    /\ s_attempt >= 1
    /\ s_start >= 1
    /\ s_end - s_start > BUFFER_SIZE

\* ---- C4: whenever push_worker(start, end) returns Ok, the remote file
\* holds at every offset of [start, end) the byte the local file holds
\* there, whatever short reads, short writes and failed attempts came before.
PushWorkerContract ==
    (sftp_fn = "push" /\ s_pc = "ret_ok") =>
        \A o \in s_start..(s_end - 1) :
            /\ o < Len(s_source)
            /\ s_dest.exists
            /\ o < Len(s_dest.data)
            /\ s_dest.data[o + 1] = s_source[o + 1]

\* push_worker has returned Ok for a segment of more than one buffer that
\* does not start at 0, after a failed attempt.
PushWorkerContractWitness ==
    /\ sftp_fn = "push"
    /\ s_pc = "ret_ok"
    /\ s_attempt >= 1
    /\ s_start >= 1
    /\ s_end - s_start > BUFFER_SIZE

\* ---- C5: for every file size S >= 0 and stream count N >= 1 the segments
\* the coordinator computes start at 0, are contiguous (each ends where the
\* next starts), do not overlap, and cover exactly [0, S): once all N are
\* planned, every offset of [0, S) lies in exactly one of them and none
\* reaches past S.
SegmentsPartition ==
    /\ \A k \in 1..Len(plan_segs) :
          /\ plan_segs[k][1] <= plan_segs[k][2]
          /\ plan_segs[k][1] = (IF k = 1 THEN 0 ELSE plan_segs[k - 1][2])
    /\ \A j, k \in 1..Len(plan_segs) :
          j /= k => ~\E o \in 0..plan_size :
                        /\ plan_segs[j][1] <= o /\ o < plan_segs[j][2]
                        /\ plan_segs[k][1] <= o /\ o < plan_segs[k][2]
    /\ (plan_streams >= 1 /\ Len(plan_segs) = plan_streams) =>
          /\ \A o \in 0..(plan_size - 1) :
                Cardinality({k \in 1..plan_streams :
                                plan_segs[k][1] <= o /\ o < plan_segs[k][2]}) = 1
          /\ \A k \in 1..plan_streams : plan_segs[k][2] <= plan_size

\* All streams planned for a size the count does not divide, and for a size
\* smaller than the count (empty segments).
SegmentsPartitionWitness ==
    /\ Len(plan_segs) = plan_streams
    /\ plan_streams = 3
    /\ plan_size = 2

\* ---- C6: each of the segments 0..N-2 has length floor(S/N) and the last
\* has length floor(S/N) + (S mod N), so the last segment ends at S; S = 100,
\* N = 8 gives seven segments of 12 and a last one of 16.
SegmentLengths ==
    /\ \A k \in 1..Len(plan_segs) :
          plan_segs[k][2] - plan_segs[k][1] =
             (IF k = plan_streams
              THEN (plan_size \div plan_streams) + (plan_size % plan_streams)
              ELSE plan_size \div plan_streams)
    /\ (plan_streams >= 1 /\ Len(plan_segs) = plan_streams) =>
          plan_segs[plan_streams][2] = plan_size
    /\ (plan_size = 100 /\ plan_streams = 8 /\ Len(plan_segs) = 8) =>
          /\ \A k \in 1..7 : plan_segs[k][2] - plan_segs[k][1] = 12
          /\ plan_segs[8][2] - plan_segs[8][1] = 16

\* The spec's example, fully planned.
SegmentLengthsWitness ==
    /\ plan_size = 100
    /\ plan_streams = 8
    /\ Len(plan_segs) = 8

\* ---- C7: a stream worker with retry budget r makes at most 1 + r
\* attempts; it returns success at its first successful attempt (every
\* attempt before it failed) and returns failure only once exactly 1 + r
\* attempts have failed, so k <= r failures followed by a success is a
\* success.  Stated of stream_stream_from_remote / stream_stream_to_remote
\* (per stream i) and of pull_worker / push_worker.
RetryBudget ==
    /\ \A i \in DOMAIN wpc :
          /\ tries[i] <= 1 + retries
          /\ attempt[i] <= tries[i]
          /\ wpc[i] = "ret_ok" => (tries[i] = attempt[i] + 1 /\ attempt[i] <= retries)
          /\ wpc[i] = "ret_err" => (attempt[i] = 1 + retries /\ tries[i] = 1 + retries)
    /\ s_tries <= 1 + s_retries
    /\ s_attempt <= s_tries
    /\ s_pc = "ret_ok" => (s_tries = s_attempt + 1 /\ s_attempt <= s_retries)
    /\ s_pc = "ret_err" => (s_attempt = 1 + s_retries /\ s_tries = 1 + s_retries)

\* pull_worker succeeds at its last attempt: all r >= 1 earlier ones failed.
RetryBudgetWitness ==
    /\ sftp_fn = "pull"
    /\ s_pc = "ret_ok"
    /\ s_retries >= 1
    /\ s_attempt = s_retries

\* ---- C8: every FailureMap slot starts false; a slot is true iff its own
\* stream has ended having failed all its 1 + retries attempts; only the
\* stream's own thread changes it, and a true slot stays true.  So once all
\* threads have ended the true slots are exactly the exhausted streams.
FailureMapInv ==
    \A i \in DOMAIN retry_flag :
        retry_flag[i] <=>
            (wpc[i] = "done" /\ attempt[i] = 1 + retries /\ tries[i] = 1 + retries)

FailureMapStep ==
    \A i \in DOMAIN retry_flag :
        /\ retry_flag[i] => retry_flag'[i]
        /\ retry_flag'[i] /= retry_flag[i] =>
              /\ wpc[i] = "ret_err"
              /\ wpc'[i] = "done"
              /\ \A j \in DOMAIN retry_flag :
                    j /= i => (retry_flag'[j] = retry_flag[j] /\ wpc'[j] = wpc[j])

FailureMap == []FailureMapInv /\ [][FailureMapStep]_vars

\* Two streams have ended: the first exhausted its retries, the second
\* succeeded, and the coordinator is about to read the map.
FailureMapWitness ==
    /\ cpc = "check"
    /\ num_streams = 2
    /\ retry_flag[0]
    /\ ~retry_flag[1]

\* ---- C9: in both directions the process exits with a non-zero status
\* whenever a stream has failed after its retries, and exits 0 only when
\* every stream succeeded.
ExitStatusReflectsStreams ==
    (exit_code /= -1 /\ spawned = num_streams) =>
        /\ AnyFailed(retry_flag) => exit_code /= 0
        /\ exit_code = 0 => streams_completed = num_streams

\* ---- C10: a stream's failure never stops, cancels or fails another
\* stream: a step of one stream changes no other stream's state, a stream
\* that has started and not ended can always take its next step, and its
\* slot is raised only by its own exhaustion; and the coordinator reads the
\* FailureMap, assembles and reports only after all N threads have ended.
SiblingsInv ==
    /\ (cpc \in {"check", "assemble", "copy"} \/ (cpc = "done" /\ spawned > 0)) =>
          \A i \in Streams : wpc[i] = "done"
    /\ \A i \in DOMAIN wpc :
          /\ wpc[i] \notin {"unspawned", "done"} => ENABLED WorkerNext(i)
          /\ (i \in DOMAIN retry_flag /\ retry_flag[i]) => attempt[i] > retries

SiblingsStep ==
    \A i, j \in DOMAIN wpc :
        (i /= j /\ (wpc'[i] /= wpc[i] \/ attempt'[i] /= attempt[i])) =>
            /\ wpc'[j] = wpc[j]
            /\ attempt'[j] = attempt[j]
            /\ total'[j] = total[j]
            /\ stream_file'[j] = stream_file[j]
            /\ j \in DOMAIN retry_flag => retry_flag'[j] = retry_flag[j]

SiblingsIndependent == []SiblingsInv /\ [][SiblingsStep]_vars

\* Stream 0 has failed for good while stream 1 is in the middle of an
\* attempt, and the coordinator is still joining.
SiblingsIndependentWitness ==
    /\ cpc = "join"
    /\ num_streams = 2
    /\ retry_flag[0]
    /\ wpc[1] = "io"
    /\ total[1] > 0

\* ---- C11: before any stream worker starts the coordinator has created (or
\* truncated) the destination and set its length to file_size, and from then
\* on the destination exists with length file_size.
DestinationPreallocated ==
    (\E i \in DOMAIN wpc : wpc[i] /= "unspawned") =>
        (dest.exists /\ Len(dest.data) = file_size)

\* ---- C12: when a stream has failed after its retries the coordinator
\* cleans nothing up and the destination is left in place, holding at its own
\* offsets the byte range of every stream that succeeded.
FailedTransferKeepsSucceeded ==
    (cpc = "done" /\ AnyFailed(retry_flag)) =>
        /\ dest.exists
        /\ \A i \in Streams :
              ~retry_flag[i] =>
                  \A o \in Start(i)..(End(i) - 1) :
                      /\ o < Len(dest.data)
                      /\ dest.data[o + 1] = source[o + 1]

\* ---- C13: a worker given an empty segment (end = start) returns success
\* at once without I/O: it establishes no session, spends no attempt and
\* never fails, even when connecting would fail.
EmptySegmentNoIO ==
    (sftp_fn /= "off" /\ s_end = s_start) =>
        /\ s_sessions = 0
        /\ s_attempt = 0
        /\ s_pc \notin {"sleep", "ret_err"}

\* ---- C14: for every retry index k a worker can reach, the delay before
\* the retry has the base min(1000 * 2^k, 30000) ms, computed in u64 without
\* overflow; the base never decreases from one retry to the next and never
\* exceeds 30000 ms; the delay slept is within 20% of the base and not
\* negative.
RetryDelayLaw ==
    /\ d_pc /= "panic"
    /\ ~d_wrapped
    /\ d_pc \in {"jitter", "sleep"} =>
          /\ d_delay_ms = (IF d_attempt - 1 >= 5 THEN 30000
                           ELSE Min(1000 * 2 ^ (d_attempt - 1), 30000))
          /\ d_prev <= d_delay_ms
          /\ d_delay_ms <= 30000
    /\ d_pc = "sleep" =>
          /\ d_final >= 0
          /\ 5 * (d_final - d_delay_ms) <= d_delay_ms
          /\ 5 * (d_delay_ms - d_final) <= d_delay_ms

\* ---- C15: for a fixed source and segmentation the destination of a
\* successful transfer is the same whatever the order in which the N workers
\* run, interleave and complete: once the assembly has consumed every stream
\* file and the success is reported, the destination is a function of the
\* source, the direction and N alone.
SegmentOf(i) ==
    IF dir = "pull"
    THEN Slice(DdOutput(source, Start(i), BytesTo(i)), 0, BytesTo(i))
    ELSE Slice(source, Start(i), BytesTo(i))

RECURSIVE SegmentsUpTo(_)
SegmentsUpTo(k) ==
    IF k = 0 THEN <<>> ELSE SegmentsUpTo(k - 1) \o SegmentOf(k - 1)

CompletionOrderIrrelevant ==
    (stats_printed /\ \A i \in Streams : ~stream_file[i].exists) =>
        /\ dest.exists
        /\ dest.data = SegmentsUpTo(num_streams)

\* A successful pull of two non-empty segments in which stream 0 needed a
\* second attempt and stream 1 did not.
CompletionOrderIrrelevantWitness ==
    /\ dir = "pull"
    /\ stats_printed
    /\ num_streams = 2
    /\ file_size = 2
    /\ attempt[0] = 1
    /\ attempt[1] = 0

\* ---- C16: retry is idempotent per segment: a worker that succeeds after
\* failed attempts, whatever prefix they wrote, leaves what a worker leaves
\* whose first attempt succeeds.  On success the segment written is the
\* source's segment whatever the number of attempts, and (ssh.rs) no byte
\* of a failed attempt is left outside [start, end).
RetryIdempotent ==
    /\ s_pc = "ret_ok" =>
          /\ SBytes > 0 => s_end <= Len(s_dest.data)
          /\ \A o \in 0..(Len(s_dest.data) - 1) :
                s_dest.data[o + 1] =
                    (IF o >= s_start /\ o < s_end THEN s_source[o + 1] ELSE 0)
    /\ \A i \in DOMAIN wpc :
          wpc[i] = "ret_ok" =>
              /\ stream_file[i].exists
              /\ stream_file[i].data = SegmentOf(i)

\* pull_worker has succeeded at its second attempt, the first having failed
\* after its session was established, on a segment of more than one buffer.
RetryIdempotentWitness ==
    /\ sftp_fn = "pull"
    /\ s_pc = "ret_ok"
    /\ s_attempt = 1
    /\ s_sessions = 2
    /\ s_end - s_start > BUFFER_SIZE
    /\ s_start > 0

\* ---- C17: validate_paths accepts a (source, destination) pair iff exactly
\* one of the two is remote and the local one is valid (push: the source is
\* a regular file; pull: the destination is a directory); both-local and
\* both-remote pairs are rejected, and a rejection exits non-zero at once, in
\* the step of the validation itself.
ValidatePathsContract ==
    c_pc \in {"args", "exit"} =>
        LET accepted == c_pc = "args"
            one_remote == c_srcp.ok /\ c_dstp.ok /\ (c_srcp.remote /= c_dstp.remote)
            local_valid == IF c_srcp.remote THEN c_dstkind = "dir"
                           ELSE c_srckind = "file"
        IN /\ accepted <=> (one_remote /\ local_valid)
           /\ accepted => c_exit = -1
           /\ ~accepted => (c_exit > 0 /\ c_msg = "validate")

\* A push `zap a a@a:` of a regular file is accepted.
ValidatePathsContractWitness ==
    /\ c_pc = "args"
    /\ c_src = <<"a">>
    /\ c_srckind = "file"
    /\ c_dst = <<"a", "@", "a", ":">>
    /\ c_dstp.remote
    /\ c_dstp.user = <<"a">>
    /\ c_dstp.host = <<"a">>

\* ---- C18: parse_location never yields a remote location with an empty
\* user or an empty host; when `user@` is omitted the user is the value of
\* USER, and the location is rejected (the process exits with an error) when
\* USER is unset.
UserOmitted(loc) == Contains(loc, ":") /\ ~Contains(BeforeFirst(loc, ":"), "@")

ParsedRemoteIsNamed ==
    /\ \A p \in {c_srcp, c_dstp} :
          (p.ok /\ p.remote) => (p.user /= <<>> /\ p.host /= <<>>)
    /\ (c_srcp.ok /\ c_srcp.remote /\ UserOmitted(c_src)) =>
          (c_user.set /\ c_srcp.user = c_user.val)
    /\ (c_srcp.called /\ UserOmitted(c_src) /\ ~c_user.set) =>
          (c_pc = "exit" /\ c_exit > 0)

\* ---- C19: a stream count that is not a positive integer, 0 included, is
\* rejected with a non-zero exit before any network I/O and before any
\* worker is spawned: once such a value has been read, ssh is never run, the
\* spawn loop is never reached and the process never exits 0.
IsPositiveInteger(s) ==
    LET digits == IF s /= <<>> /\ s[1] = "+" THEN Tail(s) ELSE s IN
    /\ digits /= <<>>
    /\ \A i \in 1..Len(digits) : digits[i] \in {"0", "1", "2"}
    /\ \E i \in 1..Len(digits) : digits[i] /= "0"

StreamCountRejected ==
    (a_pc \notin {"off", "streams"} /\ ~IsPositiveInteger(a_sarg)) =>
        /\ ~a_net
        /\ a_pc /= "spawn"
        /\ a_exit /= 0

\* ---- C20: once the coordinator has returned, on success or on failure, no
\* per-stream file stream_<i>.bin is left on the host that held them: the
\* destination file is the only file the transfer leaves behind.
NoStreamFilesLeft ==
    (dir /= "off" /\ cpc = "done") =>
        \A i \in Streams : ~stream_file[i].exists

\* ---- C21: an attempt whose source is at its end (a zero-length read)
\* before end - start bytes have been transferred fails, and is retried only
\* within the budget; no attempt, hence no worker, reports success having
\* transferred fewer or more than exactly end - start bytes.
ExactLengthInv ==
    /\ s_pc = "ret_ok" => s_total = SBytes
    /\ s_pc \in {"read", "write"} => s_total < SBytes
    /\ s_pc = "write" => (Len(s_buf) > 0 /\ s_total + Len(s_buf) <= SBytes)
    /\ \A i \in DOMAIN wpc :
          /\ wpc[i] \in {"wait", "ret_ok"} => total[i] = BytesTo(i)
          /\ wpc[i] = "ret_ok" => Len(stream_file[i].data) = BytesTo(i)

\* a read issued with the source exhausted at the cursor ends the attempt
\* with an error: the attempt count goes up, and the worker sleeps before a
\* retry or returns Err when the budget is spent.
ExactLengthStep ==
    (/\ s_pc = "read"
     /\ s_pc' /= s_pc
     /\ Len(s_source) <= (IF sftp_fn = "pull" THEN s_rpos ELSE s_lpos)) =>
        /\ s_attempt' = s_attempt + 1
        /\ s_pc' = (IF s_attempt < s_retries THEN "sleep" ELSE "ret_err")
        /\ s_dest' = s_dest

ExactLength == []ExactLengthInv /\ [][ExactLengthStep]_vars

\* pull_worker has given up on a segment that reaches past the end of the
\* source: every attempt copied the bytes there are and then read at the end.
ExactLengthWitness ==
    /\ sftp_fn = "pull"
    /\ s_pc = "ret_err"
    /\ s_end > Len(s_source)
    /\ s_rpos = Len(s_source)
    /\ s_total > 0
    /\ s_total < SBytes
    /\ s_written = Len(s_buf)

\* ---- C22: connect_and_auth tries the methods in the fixed order explicit
\* key (if configured), id_ed25519, id_rsa, id_ecdsa (those whose file
\* exists), agent; no method is attempted after one has authenticated; a
\* failure of the explicit key does not end the chain; and the call fails
\* with PermissionDenied iff no method authenticated.
ChainOrder == <<"explicit">> \o DefaultKeys \o <<"agent">>
Applicable(m) ==
    \/ m = "explicit" /\ h_key
    \/ \E k \in 1..Len(DefaultKeys) : m = DefaultKeys[k] /\ h_home /\ h_exists[k]
    \/ m = "agent"
ApplicableChain == SelectSeq(ChainOrder, Applicable)

AuthChain ==
    h_pc /= "off" =>
        /\ Len(h_results) = Len(h_tried)
        /\ Len(h_tried) <= Len(ApplicableChain)
        /\ \A j \in 1..Len(h_tried) : h_tried[j] = ApplicableChain[j]
        /\ \A j \in 1..(Len(h_tried) - 1) : ~h_results[j]
        /\ h_auth <=> (\E j \in 1..Len(h_tried) : h_results[j])
        /\ h_pc = "ret_ok" => h_auth
        /\ h_pc = "ret_denied" => (~h_auth /\ h_tried = ApplicableChain)
        /\ h_pc = "check" => (h_auth \/ h_tried = ApplicableChain)
        /\ h_pc \in {"connect", "ret_err"} => h_tried = <<>>

\* The explicit key has failed, id_ed25519 is missing, id_rsa has
\* authenticated: id_ecdsa, which exists, and the agent were not tried.
AuthChainWitness ==
    /\ h_pc = "ret_ok"
    /\ h_tried = <<"explicit", "id_rsa">>
    /\ h_results = <<FALSE, TRUE>>
    /\ ~h_exists[1]
    /\ h_exists[3]

SleepBetweenAttemptsStep ==
    /\ \A i \in DOMAIN wpc :
          attempt'[i] = attempt[i] + 1 =>
              ((wpc'[i] = "sleep") <=> (attempt'[i] <= retries))
    /\ s_attempt' = s_attempt + 1 =>
          ((s_pc' = "sleep") <=> (s_attempt' <= s_retries))

SleepBetweenAttempts == [][SleepBetweenAttemptsStep]_vars

\* ---- C25: no thread holds the stats mutex or the FailureMap mutex while
\* it does network or file I/O: no step taken while a mutex is held creates,
\* writes or removes a file (the destination or a stream file).
NoLockAcrossIOStep ==
    (dest' /= dest \/ stream_file' /= stream_file) => flags_lock = "none"

NoLockAcrossIO == [][NoLockAcrossIOStep]_vars

\* ---- C26: pull workers write to the shared local destination by
\* positional writes only: with the destination at the length the
\* coordinator gave it (the size of the source), no step of a worker moves
\* the cursor of the shared handle or changes the length of the file.
SharedHandleUntouchedStep ==
    (sftp_fn = "pull" /\ Len(s_dest.data) = Len(s_source)) =>
        /\ s_cur' = s_cur
        /\ Len(s_dest'.data) = Len(s_dest.data)

SharedHandleUntouched == [][SharedHandleUntouchedStep]_vars

\* ---- C27: after extend_remote_file(path, size) has returned Ok the remote
\* file exists with length exactly size and none of its previous contents:
\* it is empty when size = 0, and when size > 0 its byte at offset size - 1
\* is zero; every later write of a worker at an offset in [0, size) leaves
\* the length equal to size.
ExtendContract ==
    e_pc = "ret_ok" =>
        /\ e_file.exists
        /\ Len(e_file.data) = e_size
        /\ ~e_worked => e_file.data = Zeros(e_size)
        /\ \A o \in 1..e_size : e_file.data[o] /= 7

\* The file held four bytes; it was extended to three, and a worker has
\* written to it since.
ExtendContractWitness ==
    /\ e_pc = "ret_ok"
    /\ e_size = 3
    /\ e_before = OldFile(4)
    /\ e_worked
    /\ e_file.data = <<0, 1, 1>>

\* ---- C28: each stream goes from pending to running to exactly one of
\* succeeded or failed and stays there; its thread records one outcome,
\* once: it adds one to streams_completed or raises its own FailureMap
\* slot.  So at all times streams_completed counts the ended streams whose
\* slot is down, and after the joins streams_completed plus the number of
\* raised slots is N.
Ended == {i \in DOMAIN wpc : wpc[i] = "done"}
Raised == {i \in DOMAIN retry_flag : retry_flag[i]}

OutcomeOnceInv ==
    dir /= "off" =>
        /\ Raised \subseteq Ended
        /\ streams_completed = Cardinality(Ended \ Raised)
        /\ joined = num_streams =>
              /\ Ended = Streams
              /\ streams_completed + Cardinality(Raised) = num_streams

OutcomeOnceStep ==
    \A i \in DOMAIN wpc :
        /\ wpc[i] = "done" => wpc'[i] = "done"
        /\ wpc[i] /= "unspawned" => wpc'[i] /= "unspawned"
        /\ (wpc[i] = "unspawned" /\ wpc'[i] /= "unspawned") => wpc'[i] = "top"
        /\ (wpc[i] /= "done" /\ wpc'[i] = "done") =>
              /\ wpc[i] \in {"ret_ok", "ret_err"}
              /\ wpc[i] = "ret_ok" =>
                    /\ streams_completed' = streams_completed + 1
                    /\ retry_flag' = retry_flag
              /\ wpc[i] = "ret_err" =>
                    /\ streams_completed' = streams_completed
                    /\ ~retry_flag[i]
                    /\ retry_flag' = [retry_flag EXCEPT ![i] = TRUE]
        /\ wpc'[i] = wpc[i] =>
              (i \in DOMAIN retry_flag => retry_flag'[i] = retry_flag[i])

OutcomeOnce == []OutcomeOnceInv /\ [][OutcomeOnceStep]_vars

\* Two streams have been joined: stream 0 failed, stream 1 succeeded.
OutcomeOnceWitness ==
    /\ num_streams = 2
    /\ joined = 2
    /\ cpc = "done"
    /\ retry_flag[0]
    /\ ~retry_flag[1]
    /\ streams_completed = 1

\* ---- C29: in every attempt, successful or failed, a worker writes
\* destination bytes only at offsets inside its segment [start, end): no
\* byte outside it is changed (a gap the write opens past the old end reads
\* as zeros), and what the attempt has written so far is the prefix
\* [start, start + done) of the segment, done <= end - start.  For the
\* workers of ssh_comm.rs the destination of stream i is its own stream
\* file, which holds a prefix of the segment and which no other worker
\* touches.
SDone == s_total + (IF s_pc = "write" THEN s_written ELSE 0)

OwnSegmentInv ==
    /\ s_pc \in {"read", "write", "ret_ok"} =>
          /\ SDone <= SBytes
          /\ SDone > 0 => Len(s_dest.data) >= s_start + SDone
          /\ \A o \in s_start..(s_start + SDone - 1) :
                s_dest.data[o + 1] = s_source[o + 1]
    /\ \A i \in DOMAIN wpc :
          LET f == stream_file[i].data IN
          /\ Len(f) <= BytesTo(i)
          /\ f = SubSeq(SegmentOf(i), 1, Len(f))
          /\ wpc[i] = "io" /\ (dir = "push" => conn[i]) => Len(f) = total[i]

OwnSegmentStep ==
    /\ Len(s_dest'.data) >= Len(s_dest.data)
    /\ Len(s_dest'.data) <= Max(Len(s_dest.data), s_end)
    /\ \A o \in 0..(Len(s_dest'.data) - 1) :
          (o < s_start \/ o >= s_end) =>
              s_dest'.data[o + 1] =
                  (IF o < Len(s_dest.data) THEN s_dest.data[o + 1] ELSE 0)
    /\ \A i \in DOMAIN wpc :
          stream_file'[i] /= stream_file[i] =>
              \/ wpc[i] \in {"top", "io"} /\ (wpc'[i] /= wpc[i] \/ total'[i] /= total[i]
                                              \/ tries'[i] /= tries[i])
              \/ cpc \in {"assemble", "copy"}

OwnSegment == []OwnSegmentInv /\ [][OwnSegmentStep]_vars

\* pull_worker is in the middle of a buffer of the second attempt on a segment
\* that starts past the file's start: part of the segment is written, the
\* bytes before the segment are as they were.
OwnSegmentWitness ==
    /\ sftp_fn = "pull"
    /\ s_pc = "write"
    /\ s_tries = 2
    /\ s_start > 0
    /\ s_written > 0
    /\ s_written < Len(s_buf)
    /\ s_dest.data[1] = 0

\* ---- C30: every transfer ends: provided each blocking I/O call returns,
\* with whatever result (an error, a short read, a short write, a write that
\* takes no byte), a worker that keeps running reaches success or failure.
WorkerReturns == <>(s_pc \in {"ret_ok", "ret_err"})

\* ---- C31: the transfer never deadlocks on its two mutexes. A worker holds
\* at most one of the stats lock and the FailureMap lock at a time and has
\* released it when it ends; the coordinator holds a lock only after every
\* worker has terminated, and the stats lock only under the FailureMap
\* lock; it has released both when it returns; and a thread that waits for
\* a lock does not wait forever.
LHeldBy(t) == {m \in {"stats", "flags"} :
                 IF m = "stats" THEN l_stats = t ELSE l_flags = t}

LockDiscipline ==
    /\ \A i \in LStreams :
         /\ Cardinality(LHeldBy(Worker(i))) <= 1
         /\ l_wpc[i] = "has_stats" <=> l_stats = Worker(i)
         /\ l_wpc[i] = "has_flags" <=> l_flags = Worker(i)
    /\ LHeldBy(Main) /= {} => \A i \in LStreams : l_wpc[i] = "done"
    /\ l_stats = Main => l_flags = Main
    /\ l_cpc = "done" => LHeldBy(Main) = {}

LWaiting(i) == i \in LStreams /\ l_wpc[i] \in {"want_stats", "want_flags"}

LMainWaiting == l_cpc \in {"lock_flags", "lock_stats"}

NoLockDeadlock ==
    /\ []LockDiscipline
    /\ \A i \in 0..(LockMaxStreams - 1) : LWaiting(i) ~> ~LWaiting(i)
    /\ LMainWaiting ~> ~LMainWaiting

\* two workers have ended, one with Ok and one with Err, and the coordinator
\* holds the FailureMap lock
NoLockDeadlockWitness ==
    /\ l_n >= 2
    /\ l_flags = Main
    /\ l_completed >= 1
    /\ \E i \in LStreams : l_retry_flag[i]

\* ProgressBar::new(stream_size as u64): the same length for every stream
BarLength(S, N) == StreamSize(S, N)

\* pb.set_position(total_read as u64), pb.set_position(total_written as u64)
Position(i) == total[i]

\* ---- C32: for every stream, the last one included, the progress position
\* its worker reports never exceeds the length its progress bar was created
\* with, and equals that length when the stream succeeds.
ProgressWithinBar ==
    \A i \in Streams :
        /\ Position(i) <= BarLength(file_size, num_streams)
        /\ wpc[i] = "ret_ok" =>
             Position(i) = BarLength(file_size, num_streams)

InitPlan == PlanInit /\ XferOff /\ SftpOff /\ DelayOff /\ CliOff /\ ArgsOff /\ AuthOff
    /\ ExtOff /\ LockOff
InitXfer == XferInit /\ PlanOff /\ SftpOff /\ DelayOff /\ CliOff /\ ArgsOff /\ AuthOff
    /\ ExtOff /\ LockOff
InitSftp == SftpInit /\ PlanOff /\ XferOff /\ DelayOff /\ CliOff /\ ArgsOff /\ AuthOff
    /\ ExtOff /\ LockOff
InitDelay == DelayInit /\ PlanOff /\ XferOff /\ SftpOff /\ CliOff /\ ArgsOff /\ AuthOff
    /\ ExtOff /\ LockOff
InitCli == CliInit /\ PlanOff /\ XferOff /\ SftpOff /\ DelayOff /\ ArgsOff /\ AuthOff
    /\ ExtOff /\ LockOff
InitArgs == ArgsInit /\ PlanOff /\ XferOff /\ SftpOff /\ DelayOff /\ CliOff /\ AuthOff
    /\ ExtOff /\ LockOff
InitAuth == AuthInit /\ PlanOff /\ XferOff /\ SftpOff /\ DelayOff /\ CliOff /\ ArgsOff
    /\ ExtOff /\ LockOff
InitExt == ExtInit /\ PlanOff /\ XferOff /\ SftpOff /\ DelayOff /\ CliOff /\ ArgsOff
    /\ AuthOff /\ LockOff
InitLock == LockInit /\ PlanOff /\ XferOff /\ SftpOff /\ DelayOff /\ CliOff /\ ArgsOff
    /\ AuthOff /\ ExtOff
InitWorkers == InitXfer \/ InitSftp
Init == InitPlan \/ InitXfer \/ InitSftp \/ InitDelay \/ InitCli \/ InitArgs
           \/ InitAuth \/ InitExt \/ InitLock

NextWorkers ==
    \/ XferNext
    \/ SftpNext

Next ==
    \/ PlanNext
    \/ XferNext
    \/ SftpNext
    \/ DelayNext
    \/ CliNext
    \/ ArgsNext
    \/ AuthNext
    \/ ExtNext
    \/ LockNext

\* the segmentation alone
SpecPlan == InitPlan /\ [][PlanNext]_vars
\* a transfer: main.rs, utils.rs, ssh_comm.rs
SpecXfer == InitXfer /\ [][XferNext]_vars
\* one call of pull_worker or push_worker of ssh.rs
SpecSftp == InitSftp /\ [][SftpNext]_vars
\* every worker of the repository: a transfer, or a call of ssh.rs
\* the retry delays of a worker of ssh.rs
SpecDelay == InitDelay /\ [][DelayNext]_vars
\* main.rs: the validation of the two locations
SpecCli == InitCli /\ [][CliNext]_vars
\* main.rs: the numeric arguments and the start of the transfer
SpecArgs == InitArgs /\ [][ArgsNext]_vars
\* ssh.rs: one call of connect_and_auth
SpecAuth == InitAuth /\ [][AuthNext]_vars
\* ssh.rs: one call of extend_remote_file, and the writes that follow it
SpecExt == InitExt /\ [][ExtNext]_vars
\* the same call, its thread never stopped while it has a step to take
SpecSftpLive == InitSftp /\ [][SftpNext]_vars /\ WF_vars(SftpNext)
\* utils.rs: the threads of one transfer and its two mutexes
SpecLock == InitLock /\ [][LockNext]_vars
\* the same threads, none of them stopped while it has a step to take
SpecLockLive ==
    /\ InitLock
    /\ [][LockNext]_vars
    /\ WF_vars(LCoordinator)
    /\ \A i \in 0..(LockMaxStreams - 1) : WF_vars(LWorker(i))
SpecWorkers == InitWorkers /\ [][NextWorkers]_vars
Spec == Init /\ [][Next]_vars
====
